---- MODULE Spec2Model ----
(***************************************************************************)
(* Zotero <-> Obsidian synchronisation of paper_auto_organization.         *)
(*                                                                         *)
(* A text is a sequence of lines, a line a sequence of tokens.  A token is *)
(* either one character that the code's regular expressions or string      *)
(* methods look at (" ", "\t", "\\", "<", digits, ...), a label of the     *)
(* Note template ("**DOI**:", "doi:", "zotero_key:") or an atom standing   *)
(* for a run of ordinary characters ("v1", "Kim").                         *)
(***************************************************************************)
EXTENDS Integers, Sequences, FiniteSets, TLC

VARIABLES
    mpc,        \* SpecMerge: "ready" | "merged"
    mText,      \* SpecMerge: the Note file's text
    mBefore,    \* SpecMerge: the Note's text before update_existing_markdown ran
    mItem,      \* SpecMerge: the remote item given to update_existing_markdown
    mRet        \* SpecMerge: what update_existing_markdown did: "none" | "false" | "true" | "raised"

VARIABLES
    vFiles,     \* SpecVault: the Note directory, file name -> text
    vOps,       \* SpecVault: the operations that have changed or read the directory so far
    vUsed       \* SpecVault: the item keys the import has been given by the remote

VARIABLES
    remote,       \* the remote library: item key -> [ver, type, title, doi]; ver 0 = no such item
    libVersion,   \* the remote library's version
    state,        \* ZoteroSync.state of the running process
    disk,         \* the content of STATE_FILE
    vault,        \* the Note directory of the polling loop, file name -> text
    pc,           \* where watch_zotero stands: "poll", "batch", "save", "down"
    batch,        \* the new items of this poll that process_item has not had yet
    gRan,         \* the keys process_item has run for
    gNotes,       \* the keys whose process_item created a Note
    gDone,        \* the keys process_item has finished in the current batch
    gCrash,       \* the last kill: what the batch had done and still owed, and the poll after it
    gPrev,        \* how the latest get_new_items went, "none" once the remote changed after it
    gLast,        \* the latest get_new_items: gPrev before it, the keys it returned and merged
    gFail,        \* the latest process_item that met an error, and the poll after it
    gFailed,      \* the keys whose process_item met an error
    gPosted,      \* key -> the analysis annotations created on the remote for it
    gListed       \* key -> the version of the item when zot.items last listed it (0: never)

VARIABLES
    wNow,         \* SpecWatch: time.time(), in seconds
    wWrites,      \* SpecWatch: the number of file writes so far; a write's mtime
    wDisk,        \* SpecWatch: path -> [mtime, content] of the Note file
    wSnap,        \* SpecWatch: ObsidianWatcher._snapshots
    wMark,        \* SpecWatch: ObsidianWatcher._self_modified, 0 = no entry
    wChanged,     \* SpecWatch: what the latest scan() returned
    wPending,     \* SpecWatch: paths with an external edit made after the cooldown, not yet scanned
    wExt,         \* SpecWatch: paths whose latest write is a human's edit that scan has not read yet
    wOwn,         \* SpecWatch: paths that differ from their snapshot by the merge engine's writes only
    wLog          \* SpecWatch: what scans have done: suppressed, reported, leaked, missed, ... paths

VARIABLES
    qNote,        \* SpecPush: the text of the Note being pushed
    qRemote,      \* SpecPush: the data of the remote item
    qpc,          \* SpecPush: where push_to_zotero stands: "idle", "fetched", "done"
    qFetched,     \* SpecPush: the data zot.item returned
    qUpdates,     \* SpecPush: the fields the push wants to change
    qRet,         \* SpecPush: what push_to_zotero returned
    qLog          \* SpecPush: the update_item calls of this push and the remote around them

VARIABLES
    fArg,         \* the function under test and its input
    fOut          \* its outcome, once applied

VARIABLES
    eFolder,      \* the PDF files of PDF_DIR: name -> content
    eCache,       \* papers.json: the list of extracted papers
    eLast         \* the latest extract_new_pdfs run

VARIABLES
    tNote,        \* the text of the Note
    tRemote,      \* the data of the remote item
    tLast,        \* last_version of the poll loop
    tSnap,        \* the Watcher's snapshot of the Note
    tEdits,       \* the edits by humans and other clients so far
    tExt,         \* the fields another client gave a value the human has not edited over since
    tOwed         \* a Note edit whose push failed: "none" | "failed" | "dropped"

VARIABLES
    _gemini_status,   \* summarizer._gemini_status: model -> "None" | "True" | "False"
    aKey,             \* GEMINI_API_KEY of this process
    aCalls,           \* model -> the calls of _call_gemini_model so far
    aRequests,        \* model -> the HTTP requests made so far
    aLast             \* the latest call: model, status before and after, outcome, request made

VARIABLES
    cEnv,         \* the environment at start: required setting -> value
    cpc,          \* the process: "import" | "main" | "loop" | "exited"
    cPolls,       \* the get_new_items calls of the loop so far
    cFailed       \* those whose zot.items call failed

avars == <<_gemini_status, aKey, aCalls, aRequests, aLast>>
cvars == <<cEnv, cpc, cPolls, cFailed>>
yvars == <<avars, cvars>>

fvars == <<fArg, fOut>>
evars == <<eFolder, eCache, eLast>>
tvars == <<tNote, tRemote, tLast, tSnap, tEdits, tExt, tOwed>>
xvars == <<fvars, evars, tvars, yvars>>

mvars == <<mpc, mText, mBefore, mItem, mRet>>
wvars == <<wNow, wWrites, wDisk, wSnap, wMark, wChanged, wPending, wExt, wOwn, wLog>>
qvars == <<qNote, qRemote, qpc, qFetched, qUpdates, qRet, qLog>>
vvars == <<vFiles, vOps, vUsed>>
svars == <<remote, libVersion, state, disk, vault, pc, batch, gRan, gNotes, gDone, gCrash, gPrev, gLast,
          gFail, gFailed, gPosted, gListed>>
vars == <<mvars, vvars, svars, wvars, qvars, xvars>>

(***************************************************************************)
(* Bounds                                                                  *)
(***************************************************************************)
\* how many citation fields of one Note / remote item deviate from the rest
MaxFocus == 1
\* how many Notes the directory of SpecVault holds at most
MaxFiles == 3
\* how far the remote library's version runs
MaxVersion == 3
\* how far the clock of SpecWatch runs
MaxTime == 5
\* how many file writes SpecWatch follows
MaxWrites == 3
\* the errors process_item meets in one behaviour of the poll loop
MaxFaults == 1
\* the edits humans and other clients make in SpecTwoWay
MaxEdits == 3
MaxCalls == 3
\* the annotations per item up to which SpecKill lets the process be killed
MaxPosts == 2
MaxPolls == 3

(***************************************************************************)
(* Sequence helpers                                                        *)
(***************************************************************************)
RECURSIVE Flatten(_)
Flatten(ss) == IF ss = <<>> THEN <<>> ELSE Head(ss) \o Flatten(Tail(ss))

RECURSIVE Join(_, _)
Join(ss, sep) ==
    IF ss = <<>> THEN <<>>
    ELSE IF Len(ss) = 1 THEN Head(ss)
    ELSE Head(ss) \o sep \o Join(Tail(ss), sep)

\* str.strip(chars): drop the leading and trailing tokens that are in chars
RECURSIVE LStrip(_, _)
LStrip(s, chars) ==
    IF s # <<>> /\ Head(s) \in chars THEN LStrip(Tail(s), chars) ELSE s

RECURSIVE RStrip(_, _)
RStrip(s, chars) ==
    IF s # <<>> /\ s[Len(s)] \in chars THEN RStrip(SubSeq(s, 1, Len(s) - 1), chars) ELSE s

Strip(s, chars) == RStrip(LStrip(s, chars), chars)

Digit == {"0", "1", "2", "3", "4", "5", "6", "7", "8", "9"}
\* the single ASCII letters and digits that occur as tokens
AsciiAlnum == Digit \cup {"n", "t", "d", "i", "a", "b", "A", "B", "M", "y"}
Blank == {" ", "\t"}                       \* the regex class [ \t]
Whitespace == {" ", "\t", "\n", "\r"}      \* the regex class \s and str.strip()

(***************************************************************************)
(* The Note template                                                       *)
(***************************************************************************)
\* the biblio keys of the citation fields, in the order of field_patterns
field_patterns ==
    <<"author", "year", "journal", "publisher", "volume", "issue", "pages",
      "doi", "issn", "url", "language">>

CitationFields == {field_patterns[i] : i \in 1..Len(field_patterns)}

\* the bold label of a citation field, one token
Label ==
    [author |-> "**AUTHOR**:", year |-> "**YEAR**:", journal |-> "**JOURNAL**:",
     publisher |-> "**PUBLISHER**:", volume |-> "**VOL**:", issue |-> "**ISSUE**:",
     pages |-> "**PAGES**:", doi |-> "**DOI**:", issn |-> "**ISSN**:",
     url |-> "**URL**:", language |-> "**LANGUAGE**:"]

\* MARKDOWN_TEMPLATE.format(...): s holds the formatted values, token sequences
\* without a line break
MARKDOWN_TEMPLATE(s) ==
    << <<"---">>,
       <<"title:", " ", "\"">> \o s.title \o <<"\"">>,
       <<"year:", " ">> \o s.year,
       <<"tags:", " ", "[">> \o s.tags \o <<"]">>,
       <<"created:", " ", "today">>,
       <<"zotero_key:", " ">> \o s.zotero_key,
       <<"doi:", " ">> \o s.doi,
       <<"---">>,
       <<>>,
       <<"# ">> \o s.title,
       <<>>,
       <<"## Citation">>,
       <<"- ", Label.author, " ">> \o s.author,
       <<"- ", Label.year, " ">> \o s.year,
       <<"- ", Label.journal, " ">> \o s.journal,
       <<"- ", Label.publisher, " ">> \o s.publisher,
       <<"- ", Label.volume, " ">> \o s.volume,
       <<"- ", Label.issue, " ">> \o s.issue,
       <<"- ", Label.pages, " ">> \o s.pages,
       <<"- ", Label.doi, " ">> \o s.doi,
       <<"- ", Label.issn, " ">> \o s.issn,
       <<"- ", Label.url, " ">> \o s.url,
       <<"- ", Label.language, " ">> \o s.language,
       <<"- ", "**TAGS**:", " ">> \o s.hashtags,
       <<>>,
       <<"## Abstract">>,
       s.abstract,
       <<>>,
       <<"## Key Claims">>,
       s.key_claims,
       <<>>,
       <<"## Method">>,
       s.method,
       <<>>,
       <<"## Findings">>,
       s.findings,
       <<>>,
       <<"## Excerpts">>,
       s.excerpts,
       <<>>,
       <<"## My Thoughts">>,
       <<"> ", "placeholder">>,
       <<>>,
       <<"-">>,
       <<>>,
       <<"## Links">>,
       <<"- ", "related:">>,
       <<"- ", "MOC:", " ", "[[MOC]]">>,
       <<>>,
       <<"---">>,
       <<"**SOURCE**:", " ", "[[">> \o s.pdf_filename \o <<"]]">> >>

\* where the template puts things
HeaderEnd == 8
CitationFirst == 13
CitationLast == 24
ThoughtsLine == 42

(***************************************************************************)
(* ZoteroSync.build_biblio                                                 *)
(***************************************************************************)
\* f"{last}, {first}".strip(", ") if last else first
CreatorName(c) ==
    IF c.lastName # <<>>
    THEN Strip(c.lastName \o <<",", " ">> \o c.firstName, {",", " "})
    ELSE c.firstName

RECURSIVE AuthorNames(_)
AuthorNames(creators) ==
    IF creators = <<>> THEN <<>>
    ELSE LET c == Head(creators)
             rest == AuthorNames(Tail(creators))
         IN IF c.creatorType # "author" THEN rest
            ELSE IF CreatorName(c) = <<>> THEN rest
            ELSE <<CreatorName(c)>> \o rest

\* re.search(r"((?:19|20)\d{2})", date_str): the first window of four digits
\* that starts with 19 or 20; <<>> when there is none
RECURSIVE YearSearch(_, _)
YearSearch(date, i) ==
    IF i + 3 > Len(date) THEN <<>>
    ELSE IF /\ <<date[i], date[i + 1]>> \in {<<"1", "9">>, <<"2", "0">>}
            /\ date[i + 2] \in Digit
            /\ date[i + 3] \in Digit
         THEN SubSeq(date, i, i + 3)
         ELSE YearSearch(date, i + 1)

build_biblio(item) ==
    LET data == item.data IN
    [title     |-> data.title,
     author    |-> Join(AuthorNames(data.creators), <<";", " ">>),
     year      |-> YearSearch(data.date, 1),
     journal   |-> IF data.publicationTitle # <<>> THEN data.publicationTitle
                   ELSE IF data.bookTitle # <<>> THEN data.bookTitle
                   ELSE IF data.proceedingsTitle # <<>> THEN data.proceedingsTitle
                   ELSE data.publisher,
     abstract  |-> data.abstractNote,
     zotero_key |-> item.key,
     doi       |-> data.DOI,
     volume    |-> data.volume,
     issue     |-> data.issue,
     pages     |-> data.pages,
     issn      |-> data.ISSN,
     url       |-> data.url,
     language  |-> data.language,
     publisher |-> data.publisher]

(***************************************************************************)
(* re.subn(pattern, rf'\g<1>{new_val}', text, flags=re.MULTILINE)          *)
(***************************************************************************)
\* The replacement is a template: Python expands the backslash escapes of
\* new_val.  acc is the expansion so far, a sequence of lines (a "\n" escape
\* starts a new one); g1 is the text of group 1.
AddToLast(acc, toks) ==
    [acc EXCEPT ![Len(acc)] = acc[Len(acc)] \o toks]

RECURSIVE ExpandTemplate(_, _, _, _)
ExpandTemplate(val, i, g1, acc) ==
    IF i > Len(val) THEN [err |-> FALSE, lines |-> acc]
    ELSE IF val[i] # "\\" THEN ExpandTemplate(val, i + 1, g1, AddToLast(acc, <<val[i]>>))
    ELSE IF i = Len(val) THEN [err |-> TRUE, lines |-> acc]     \* bad escape (end of pattern)
    ELSE LET c == val[i + 1] IN
         IF c = "n" THEN ExpandTemplate(val, i + 2, g1, Append(acc, <<>>))
         ELSE IF c = "t" THEN ExpandTemplate(val, i + 2, g1, AddToLast(acc, <<"\t">>))
         ELSE IF c = "\\" THEN ExpandTemplate(val, i + 2, g1, AddToLast(acc, <<"\\">>))
         ELSE IF c = "1" THEN ExpandTemplate(val, i + 2, g1, AddToLast(acc, g1))
         ELSE IF c \in AsciiAlnum THEN [err |-> TRUE, lines |-> acc]   \* bad escape \d
         ELSE ExpandTemplate(val, i + 2, g1, AddToLast(acc, <<"\\", c>>))

TemplateError(val) == ExpandTemplate(val, 1, <<>>, <<<<>>>>).err

\* the pattern without its closing $: the label wherever it stands
BodyMatchUnanchored(line, label) ==
    {i \in 1..Len(line) : line[i] = label}

\* (\*\*{field_name}\*\*:[ \t]*)$ : the label, then only blanks up to the end
\* of the line.  The pattern is not anchored at the start of the line.
BodyMatch(line, label) ==
    {i \in 1..Len(line) : /\ line[i] = label
                          /\ \A j \in (i + 1)..Len(line) : line[j] \in Blank}

\* ^(doi:[ \t]*)$ : anchored at both ends of the line
HeaderDoiMatch(line) ==
    {i \in {1} : /\ Len(line) >= 1
                 /\ line[1] = "doi:"
                 /\ \A j \in 2..Len(line) : line[j] \in Blank}

\* one line under the substitution: the lines that replace it
SubLine(line, hits, val) ==
    IF hits = {} THEN <<line>>
    ELSE LET i == CHOOSE h \in hits : TRUE
             e == ExpandTemplate(val, 1, SubSeq(line, i, Len(line)), <<<<>>>>)
         IN <<line \o e.lines[1]>> \o Tail(e.lines)

\* re.subn for a field label (label # "doi:") or for the header doi line:
\* (new_text, n).  Raises when the template is malformed, match or no match.
subn(text, label, val) ==
    LET Hits(line) == IF label = "doi:" THEN HeaderDoiMatch(line) ELSE BodyMatch(line, label)
        hit == {k \in 1..Len(text) : Hits(text[k]) # {}}
    IN IF hit = {} THEN [text |-> text, n |-> 0]
       ELSE [text |-> Flatten([k \in 1..Len(text) |->
                                  IF k \in hit THEN SubLine(text[k], Hits(text[k]), val)
                                  ELSE <<text[k]>>]),
             n    |-> Cardinality(hit)]

(***************************************************************************)
(* ZoteroSync.update_existing_markdown, on the text of the Note it found   *)
(***************************************************************************)
\* the loop over field_patterns from its i-th entry on
RECURSIVE FillFields(_, _, _, _)
FillFields(text, biblio, i, changed) ==
    IF i > Len(field_patterns) THEN [raised |-> FALSE, changed |-> changed, text |-> text]
    ELSE LET new_val == biblio[field_patterns[i]] IN
         IF new_val = <<>> THEN FillFields(text, biblio, i + 1, changed)
         ELSE IF TemplateError(new_val) THEN [raised |-> TRUE, changed |-> changed, text |-> text]
         ELSE CHOOSE out \in {IF r.n > 0 THEN FillFields(r.text, biblio, i + 1, TRUE)
                                ELSE FillFields(text, biblio, i + 1, changed) :
                                   r \in {subn(text, Label[field_patterns[i]], new_val)}} : TRUE

\* the frontmatter doi update that follows the loop
FillHeaderDoi(res, doi_val) ==
    IF res.raised \/ doi_val = <<>> THEN res
    ELSE LET r == subn(res.text, "doi:", doi_val) IN
         IF r.n > 0 THEN [raised |-> FALSE, changed |-> TRUE, text |-> r.text] ELSE res

\* [raised, changed, text]: text is written to the file iff changed and not raised
\* (the set brackets make TLC evaluate each intermediate result once)
update_existing_markdown(text, item) ==
    LET biblio == build_biblio(item) IN
    CHOOSE out \in {FillHeaderDoi(res, biblio.doi) :
                        res \in {FillFields(text, biblio, 1, FALSE)}} : TRUE

(***************************************************************************)
(* Notes and remote items the merge is run on                              *)
(***************************************************************************)
\* values of a remote text field: empty, plain, with a "\n" escape, with "\d"
TextPool == << <<>>, <<"v1">>, <<"v1", "\\", "n", "v2">>, <<"v1", "\\", "d">> >>
\* values of the remote date field
DatePool ==
    << <<>>,
       <<"2", "0", "2", "3", "-", "0", "5">>,
       <<"M", "a", "y", " ", "1", "9", "9", "8">>,
       <<"n", ".", "d", ".">> >>
\* values of the remote creators list
CreatorsPool ==
    << <<>>,
       <<[creatorType |-> "author", lastName |-> <<"Kim">>, firstName |-> <<"Min">>]>>,
       <<[creatorType |-> "editor", lastName |-> <<"Lee">>, firstName |-> <<"Jo">>],
         [creatorType |-> "author", lastName |-> <<"Park">>, firstName |-> <<>>]>>,
       <<[creatorType |-> "author", lastName |-> <<>>, firstName |-> <<"Cho">>],
         [creatorType |-> "author", lastName |-> <<"Kim">>, firstName |-> <<"Min">>]>> >>

DataFields ==
    {"creators", "date", "publicationTitle", "bookTitle", "proceedingsTitle",
     "publisher", "volume", "issue", "pages", "DOI", "ISSN", "url", "language"}

DataValue(d, i) ==
    IF d = "creators" THEN CreatorsPool[i]
    ELSE IF d = "date" THEN DatePool[i]
    ELSE TextPool[i]

\* the citation fields that build_biblio fills from data field d
FedBy(d) ==
    CASE d = "creators" -> {"author"}
      [] d = "date" -> {"year"}
      [] d \in {"publicationTitle", "bookTitle", "proceedingsTitle"} -> {"journal"}
      [] d = "publisher" -> {"journal", "publisher"}
      [] d = "DOI" -> {"doi"}
      [] d = "ISSN" -> {"issn"}
      [] OTHER -> {d}

\* a remote item whose data fields in D hold their a-th value, the others their b-th
ItemData(D, a, b, title, version) ==
    LET V(d) == DataValue(d, IF d \in D THEN a ELSE b) IN
    [itemType |-> "journalArticle", title |-> title, version |-> version,
     creators |-> V("creators"), date |-> V("date"),
     publicationTitle |-> V("publicationTitle"), bookTitle |-> V("bookTitle"),
     proceedingsTitle |-> V("proceedingsTitle"), publisher |-> V("publisher"),
     volume |-> V("volume"), issue |-> V("issue"), pages |-> V("pages"),
     DOI |-> V("DOI"), ISSN |-> V("ISSN"), url |-> V("url"), language |-> V("language"),
     abstractNote |-> <<>>, tags |-> {}]

\* what follows a label on a Note's field line: blank as generated, a value a
\* human typed, nothing at all, blanks with a tab
NoteTails == << <<" ">>, <<" ", "h1">>, <<>>, <<" ", "\t">> >>
\* what a human may have put on the line under "My Thoughts"
ThoughtsPool ==
    << <<"> ", "placeholder">>, <<"- ", Label.doi, " ">>, <<"doi:">>, <<"idea", " ", Label.url>> >>

FieldIndex(f) == CHOOSE i \in 1..Len(field_patterns) : field_patterns[i] = f
CitationLineNo(f) == CitationFirst + FieldIndex(f) - 1

EmptySummary ==
    [title |-> <<"T">>, year |-> <<"2", "0", "2", "3">>, tags |-> <<"literature", ",", " ", "paper">>,
     zotero_key |-> <<>>, doi |-> <<>>, author |-> <<>>, journal |-> <<>>, publisher |-> <<>>,
     volume |-> <<>>, issue |-> <<>>, pages |-> <<>>, issn |-> <<>>, url |-> <<>>,
     language |-> <<>>, hashtags |-> <<>>, abstract |-> <<"abs">>, key_claims |-> <<"- ", "c1">>,
     method |-> <<"m">>, findings |-> <<"1", ".", " ", "f1">>, excerpts |-> <<"ex">>,
     pdf_filename |-> <<"p.pdf">>]

\* a Note as generated for key, after a human's edits: field lines in F end in
\* the a-th tail and the others in the b-th, the header doi line in hd, and
\* the My Thoughts line is th
EditedNote(key, F, a, b, hd, th) ==
    LET base == MARKDOWN_TEMPLATE([EmptySummary EXCEPT !.zotero_key = <<key>>]) IN
    [k \in 1..Len(base) |->
        IF k \in CitationFirst..(CitationLast - 1)
        THEN LET f == field_patterns[k - CitationFirst + 1] IN
             <<"- ", Label[f]>> \o NoteTails[IF f \in F THEN a ELSE b]
        ELSE IF k = HeaderEnd - 1 THEN <<"doi:">> \o NoteTails[hd]
        ELSE IF k = ThoughtsLine THEN ThoughtsPool[th]
        ELSE base[k]]

(***************************************************************************)
(* SpecMerge: update_existing_markdown on one Note and one remote item     *)
(***************************************************************************)
IdleVault == vFiles = <<>> /\ vOps = {} /\ vUsed = {}

\* no function applied, nothing extracted, no two-way sync under way
NoArg == [fn |-> "none"]
NoOut == [done |-> FALSE, raised |-> FALSE, value |-> [type |-> "none"]]
NoRun == [ran |-> FALSE, before |-> <<>>, folder |-> {}, tried |-> {}, failed |-> {}, owed |-> {}]
IdleFn == fArg = NoArg /\ fOut = NoOut
IdleExtract == eFolder = <<>> /\ eCache = <<>> /\ eLast = NoRun
IdleTwoWay == tNote = <<>> /\ tRemote = [version |-> 0] /\ tLast = 0 /\ tSnap = <<>> /\ tEdits = 0 /\ tExt = {} /\ tOwed = "none"

\* the models of config.py: GEMINI_MODEL and GEMINI_MODEL_LITE
Models == {"GEMINI_MODEL", "GEMINI_MODEL_LITE"}

NoCallYet == [model |-> "none", before |-> "None", after |-> "None", outcome |-> "none", requested |-> FALSE]

IdleGemini ==
    /\ _gemini_status = [m \in Models |-> "None"]
    /\ aKey = "none"
    /\ aCalls = [m \in Models |-> 0]
    /\ aRequests = [m \in Models |-> 0]
    /\ aLast = NoCallYet

IdleStartup == cEnv = <<>> /\ cpc = "none" /\ cPolls = 0 /\ cFailed = 0

IdleMore == IdleGemini /\ IdleStartup

IdleExtra == IdleFn /\ IdleExtract /\ IdleTwoWay /\ IdleMore

Paths == {"p1", "p2"}

NoSnapshot == [mtime |-> -1, hash |-> <<"none">>]

NoScans == [suppressed |-> {}, reported |-> {}, leaked |-> {}, missed |-> {},
            returned |-> {}, touched |-> {}, echoed |-> {}, swallowed |-> {}]

IdleWatch ==
    /\ wNow = 1
    /\ wWrites = 0
    /\ wDisk = [p \in Paths |-> [mtime |-> 0, content |-> "c0"]]
    /\ wSnap = [p \in Paths |-> NoSnapshot]
    /\ wMark = [p \in Paths |-> 0]
    /\ wChanged = {}
    /\ wPending = {}
    /\ wExt = {}
    /\ wOwn = {}
    /\ wLog = NoScans

NoData == [version |-> 0]

NoPush == [attempts |-> 0, stale |-> FALSE, before |-> NoData, after |-> NoData]

IdlePush ==
    /\ qNote = <<>>
    /\ qRemote = NoData
    /\ qpc = "idle"
    /\ qFetched = NoData
    /\ qUpdates = <<>>
    /\ qRet = "none"
    /\ qLog = NoPush

Keys == {"K1", "K2"}

\* load_state() without a state file
EmptyState == [last_version |-> 0, processed_keys |-> {}, processed_titles |-> {}]

NoItem == [ver |-> 0, type |-> "journalArticle", title |-> <<>>, doi |-> 1]

NoCrash == [mid |-> FALSE, done |-> {}, owed |-> {}, quiet |-> TRUE, polled |-> FALSE, new |-> {}]

NoCall == [prev |-> "none", new |-> {}, updated |-> {}]

NoFail == [kind |-> "none", key |-> "", survived |-> TRUE, recorded |-> FALSE, retry |-> FALSE,
           polled |-> FALSE, relisted |-> FALSE]

IdleSync ==
    /\ remote = [k \in Keys |-> NoItem]
    /\ libVersion = 0
    /\ state = EmptyState
    /\ disk = EmptyState
    /\ vault = <<>>
    /\ pc = "poll"
    /\ batch = <<>>
    /\ gRan = {}
    /\ gNotes = {}
    /\ gDone = {}
    /\ gCrash = NoCrash
    /\ gPrev = "none"
    /\ gLast = NoCall
    /\ gFail = NoFail
    /\ gFailed = {}
    /\ gPosted = [k \in Keys |-> 0]
    /\ gListed = [k \in Keys |-> 0]

FocusSets == {D \in SUBSET DataFields : Cardinality(D) <= MaxFocus}

InitMerge ==
    /\ mpc = "ready"
    /\ mRet = "none"
    /\ \E D \in FocusSets, a \in 1..Len(TextPool), b \in 1..2,
          na \in 1..Len(NoteTails), nb \in 1..2, hd \in 1..2, th \in 1..Len(ThoughtsPool) :
          /\ mItem = [key |-> "K1", data |-> ItemData(D, a, b, <<"T">>, 5)]
          /\ mText = EditedNote("K1", UNION {FedBy(d) : d \in D}, na, nb, hd, th)
    /\ mBefore = mText
    /\ IdleVault
    /\ IdleSync
    /\ IdleWatch
    /\ IdlePush
    /\ IdleExtra

IdleMerge ==
    /\ mpc = "idle" /\ mText = <<>> /\ mBefore = <<>> /\ mItem = "none" /\ mRet = "none"

\* update_existing_markdown(item), the Note found
Merge ==
    /\ mpc = "ready"
    /\ \E r \in {update_existing_markdown(mText, mItem)} :
       /\ mRet' = IF r.raised THEN "raised" ELSE IF r.changed THEN "true" ELSE "false"
       /\ mText' = IF ~r.raised /\ r.changed THEN r.text ELSE mText
    /\ mBefore' = mText
    /\ mpc' = "merged"
    /\ UNCHANGED <<mItem, vvars, svars, wvars, qvars, xvars>>

NextMerge == Merge

SpecMerge == InitMerge /\ [][NextMerge]_vars

(***************************************************************************)
(* Reading a Note's fields back                                            *)
(***************************************************************************)
IsFieldLine(line, f) == Len(line) >= 2 /\ line[1] = "- " /\ line[2] = Label[f]

\* the Note's line for citation field f: the first "- **label**:" line
FieldLine(text, f) ==
    text[CHOOSE k \in 1..Len(text) :
            /\ IsFieldLine(text[k], f)
            /\ \A j \in 1..(k - 1) : ~IsFieldLine(text[j], f)]

\* what the line holds after the label, leading blanks dropped
FieldValue(text, f) == LStrip(SubSeq(FieldLine(text, f), 3, Len(FieldLine(text, f))), Blank)

HeaderDoiValue(text) == LStrip(Tail(text[HeaderEnd - 1]), Blank)

\* the sections after the citation block: the last n lines of the text, n the
\* number of lines the generated Note has after the block
BodyLines == Len(MARKDOWN_TEMPLATE(EmptySummary)) - CitationLast
BodyOf(text) == SubSeq(text, Len(text) - BodyLines + 1, Len(text))

Merged == mpc = "merged"
Remote(f) == build_biblio(mItem)[f]

C5_BackfillExact ==
    Merged =>
        \A f \in CitationFields :
            (FieldValue(mBefore, f) = <<>> /\ Remote(f) # <<>>) => FieldValue(mText, f) = Remote(f)

\* C8: with the DOI the item's only non-empty citation value and the Note's
\* **DOI**: line blank, the merge sets that line to the remote DOI and leaves
\* every other header field and citation field as it was (the frontmatter doi
\* line counts as the DOI field: it keeps its value or takes the remote DOI).
C8_OnlyDoiChanges ==
    (/\ Merged
     /\ Remote("doi") # <<>>
     /\ \A f \in CitationFields \ {"doi"} : Remote(f) = <<>>
     /\ FieldValue(mBefore, "doi") = <<>>)
    => /\ FieldValue(mText, "doi") = Remote("doi")
       /\ \A f \in CitationFields \ {"doi"} : FieldLine(mText, f) = FieldLine(mBefore, f)
       /\ SubSeq(mText, 1, HeaderEnd - 2) = SubSeq(mBefore, 1, HeaderEnd - 2)
       /\ HeaderDoiValue(mText) \in {HeaderDoiValue(mBefore), Remote("doi")}

\* C10: the sections after the citation block are the same text before and
\* after update_existing_markdown, whatever the Note holds.
C10_BodyUntouched ==
    Merged => BodyOf(mText) = BodyOf(mBefore)

(***************************************************************************)
(* Titles and file names                                                   *)
(***************************************************************************)
\* str.lower() on one token
Lower(t) ==
    CASE t = "A" -> "a"
      [] t = "B" -> "b"
      [] t = "M" -> "m"
      [] OTHER -> t

LowerSeq(s) == [k \in 1..Len(s) |-> Lower(s[k])]

\* _HTML_TAG_RE.sub("", title) with _HTML_TAG_RE = <[^>]+> : from position i on
RECURSIVE StripTags(_, _)
StripTags(s, i) ==
    IF i > Len(s) THEN <<>>
    ELSE LET closers == {j \in (i + 2)..Len(s) :
                            /\ s[j] = ">"
                            /\ \A k \in (i + 1)..(j - 1) : s[k] # ">"}
         IN IF s[i] = "<" /\ closers # {}
            THEN StripTags(s, (CHOOSE j \in closers : TRUE) + 1)
            ELSE <<s[i]>> \o StripTags(s, i + 1)

\* re.sub(r"\s+", " ", cleaned): every run of whitespace becomes one space
RECURSIVE CollapseWhitespace(_)
CollapseWhitespace(s) ==
    IF s = <<>> THEN <<>>
    ELSE IF Head(s) \in Whitespace
         THEN <<" ">> \o CollapseWhitespace(LStrip(s, Whitespace))
         ELSE <<Head(s)>> \o CollapseWhitespace(Tail(s))

_normalize_title(title) ==
    LowerSeq(Strip(CollapseWhitespace(StripTags(title, 1)), Whitespace))

\* the characters _sanitize_filename replaces by a hyphen
Forbidden == {"<", ">", ":", "\"", "/", "\\", "|", "?", "*", "\n", "\r", "\t"}

\* re.sub(r"-{2,}", "-", name)
RECURSIVE CollapseHyphens(_)
CollapseHyphens(s) ==
    IF s = <<>> THEN <<>>
    ELSE IF Head(s) = "-" THEN <<"-">> \o CollapseHyphens(LStrip(s, {"-"}))
    ELSE <<Head(s)>> \o CollapseHyphens(Tail(s))

_sanitize_filename(name) ==
    LET hyphened == [k \in 1..Len(name) |-> IF name[k] \in Forbidden THEN "-" ELSE name[k]]
        stripped == Strip(CollapseHyphens(hyphened), {" ", "-"})
    IN [k \in 1..Len(stripped) |-> IF stripped[k] = " " THEN "-" ELSE stripped[k]]

\* s.rsplit("-", 1)[0]
RSplitHead(s) ==
    LET at == {k \in 1..Len(s) : s[k] = "-"} IN
    IF at = {} THEN s ELSE SubSeq(s, 1, (CHOOSE k \in at : \A j \in at : j <= k) - 1)

\* the longest title part kept in a file name, and the part compared by the
\* similar-file check
TitleLimit == 80
TitlePartLimit == 30

Prefix(s, n) == SubSeq(s, 1, IF Len(s) < n THEN Len(s) ELSE n)

_build_filename(summary) ==
    LET safe == _sanitize_filename(summary.title)
        safe_title == IF Len(safe) > TitleLimit THEN RSplitHead(Prefix(safe, TitleLimit)) ELSE safe
    IN <<"@">> \o summary.year \o <<"_">> \o safe_title \o <<".md">>

\* a in b, for strings
IsSubstring(a, b) ==
    \E i \in 0..(Len(b) - Len(a)) : SubSeq(b, i + 1, i + Len(a)) = a

(***************************************************************************)
(* summarize_paper (with biblio) and generate_markdown                     *)
(***************************************************************************)
\* the paper process_item hands to summarize_paper: no local PDF ("none") or
\* an extracted PDF whose metadata carries no title
PaperOf(key, pdf) ==
    IF pdf = "none" THEN [file_name |-> <<key, ".pdf">>, meta_title |-> <<>>]
    ELSE [file_name |-> <<"file", ".pdf">>, meta_title |-> <<>>]

\* _fallback_summary(paper)["title"]
FallbackTitle(paper) ==
    IF paper.meta_title # <<>> THEN paper.meta_title
    ELSE SelectSeq(paper.file_name, LAMBDA t : t # ".pdf")

\* summarize_paper(paper, biblio): the bibliographic fields come from biblio,
\* the analysis sections from stage 2 ("parsed") or from the fallback
summarize_paper(paper, biblio, stage2) ==
    [title     |-> IF biblio.title # <<>> THEN biblio.title ELSE FallbackTitle(paper),
     author    |-> biblio.author,
     year      |-> biblio.year,
     journal   |-> biblio.journal,
     doi       |-> biblio.doi,
     volume    |-> biblio.volume,
     issue     |-> biblio.issue,
     pages     |-> biblio.pages,
     issn      |-> biblio.issn,
     url       |-> biblio.url,
     language  |-> biblio.language,
     publisher |-> biblio.publisher,
     abstract  |-> IF stage2 = "parsed" THEN <<"abstract">>
                   ELSE IF biblio.abstract # <<>> THEN biblio.abstract ELSE <<"[no abstract]">>,
     key_claims |-> IF stage2 = "parsed" THEN <<"- ", "claim">> ELSE <<"> ", "[claims]">>,
     method    |-> IF stage2 = "parsed" THEN <<"method">> ELSE <<"> ", "[method]">>,
     findings  |-> IF stage2 = "parsed" THEN <<"1", ".", " ", "finding">> ELSE <<"> ", "[findings]">>,
     excerpts  |-> IF stage2 = "parsed" THEN <<"excerpt">> ELSE <<"[excerpt]">>]

\* title.replace('"', '\\"')
RECURSIVE YamlTitle(_)
YamlTitle(t) ==
    IF t = <<>> THEN <<>>
    ELSE (IF Head(t) = "\"" THEN <<"\\", "\"">> ELSE <<Head(t)>>) \o YamlTitle(Tail(t))

\* the keyword arguments of MARKDOWN_TEMPLATE.format
FormatArgs(summary, pdf_filename, zotero_key) ==
    [title |-> YamlTitle(summary.title),
     year |-> IF summary.year # <<>> THEN summary.year ELSE <<"unknown">>,
     tags |-> <<"literature", ",", " ", "paper">>,
     zotero_key |-> IF zotero_key = "" THEN <<>> ELSE <<zotero_key>>,
     doi |-> summary.doi, author |-> summary.author, journal |-> summary.journal,
     publisher |-> summary.publisher, volume |-> summary.volume, issue |-> summary.issue,
     pages |-> summary.pages, issn |-> summary.issn, url |-> summary.url,
     language |-> summary.language, hashtags |-> <<>>,
     abstract |-> summary.abstract, key_claims |-> summary.key_claims,
     method |-> summary.method, findings |-> summary.findings, excerpts |-> summary.excerpts,
     pdf_filename |-> SelectSeq(pdf_filename, LAMBDA t : t # ".pdf") \o <<".pdf">>]

\* MARKDOWN_DIR.glob(f"@{year}_*.md"), as a test on a file name
GlobYear(name, year) ==
    /\ Len(name) >= Len(year) + 3
    /\ SubSeq(name, 1, Len(year) + 2) = <<"@">> \o year \o <<"_">>
    /\ name[Len(name)] = ".md"

\* the similar-file check: a file of the same year whose name contains the
\* first characters of the sanitized title
SimilarExists(files, summary) ==
    LET title_part == Prefix(_sanitize_filename(summary.title), TitlePartLimit) IN
    /\ summary.year # <<>>
    /\ \E name \in DOMAIN files :
          /\ GlobYear(name, summary.year)
          /\ title_part # <<>>
          /\ IsSubstring(LowerSeq(title_part), LowerSeq(name))

\* generate_markdown without its two tests: the target is written whatever
\* the directory holds
generate_markdown_overwrite(files, summary, pdf_filename, zotero_key) ==
    LET md_name == _build_filename(summary) IN
    [n \in DOMAIN files \cup {md_name} |->
        IF n = md_name
        THEN MARKDOWN_TEMPLATE(FormatArgs(summary, pdf_filename, zotero_key))
        ELSE files[n]]

\* what generate_markdown returns: None when the target or a similar file
\* exists, the path of the Note it wrote otherwise
generate_markdown_returns(files, summary) ==
    IF _build_filename(summary) \in DOMAIN files \/ SimilarExists(files, summary)
    THEN [type |-> "None"]
    ELSE [type |-> "path", name |-> _build_filename(summary)]

\* generate_markdown(summary, pdf_filename, zotero_key) on the Note directory
\* files (name -> text): the directory afterwards; unchanged when it skips
generate_markdown(files, summary, pdf_filename, zotero_key) ==
    LET md_name == _build_filename(summary) IN
    IF md_name \in DOMAIN files THEN files
    ELSE IF SimilarExists(files, summary) THEN files
    ELSE [n \in DOMAIN files \cup {md_name} |->
             IF n = md_name
             THEN MARKDOWN_TEMPLATE(FormatArgs(summary, pdf_filename, zotero_key))
             ELSE files[n]]

(***************************************************************************)
(* Frontmatter                                                             *)
(***************************************************************************)
\* re.match(r"^---\n(.*?)\n---", text, re.DOTALL): the lines of group 1, or
\* "nomatch".  k is the first later line that starts with ---.
Frontmatter(text) ==
    LET ends == {k \in 3..Len(text) : text[k] # <<>> /\ text[k][1] = "---"} IN
    IF Len(text) >= 3 /\ text[1] = <<"---">> /\ ends # {}
    THEN SubSeq(text, 2, (CHOOSE k \in ends : \A j \in ends : k <= j) - 1)
    ELSE "nomatch"

IsBlankLine(line) == \A k \in 1..Len(line) : line[k] \in Whitespace

\* re.search(rf'^{key}:\s*(.+)$', fm, re.MULTILINE) and .strip() of group 1:
\* \s* runs over line ends, so a key with nothing after it takes the next
\* line that is not blank
FmGet(fm, key) ==
    LET at == {j \in 1..Len(fm) : fm[j] # <<>> /\ fm[j][1] = key} IN
    IF at = {} THEN <<>>
    ELSE LET j == CHOOSE x \in at : \A y \in at : x <= y
             rest == Tail(fm[j])
             later == {m \in (j + 1)..Len(fm) : ~IsBlankLine(fm[m])}
         IN IF ~IsBlankLine(rest) THEN Strip(rest, Whitespace)
            ELSE IF later = {} THEN <<>>
            ELSE Strip(fm[CHOOSE m \in later : \A y \in later : m <= y], Whitespace)

\* the zotero_key the sync engine reads from a Note; <<>> when it has none
NoteKey(text) ==
    IF Frontmatter(text) = "nomatch" THEN <<>> ELSE FmGet(Frontmatter(text), "zotero_key:")

\* the value on the header's zotero_key line itself
HeaderKey(text) ==
    IF Frontmatter(text) = "nomatch" THEN <<>>
    ELSE LET fm == Frontmatter(text)
             at == {j \in 1..Len(fm) : fm[j] # <<>> /\ fm[j][1] = "zotero_key:"}
         IN IF at = {} THEN <<>>
            ELSE Strip(Tail(fm[CHOOSE x \in at : \A y \in at : x <= y]), Whitespace)

\* f"zotero_key: {zotero_key}" in text
HasKeyRef(text, key) ==
    \E k \in 1..Len(text) : \E i \in 1..(Len(text[k]) - 2) :
        text[k][i] = "zotero_key:" /\ text[k][i + 1] = " " /\ text[k][i + 2] = key

\* find_markdown_by_key: the Notes (@*.md) glob may yield first
find_markdown_by_key(files, key) ==
    {n \in DOMAIN files : n[1] = "@" /\ n[Len(n)] = ".md" /\ HasKeyRef(files[n], key)}

(***************************************************************************)
(* obsidian_to_zotero.py: the import script                                *)
(***************************************************************************)
\* parse_note_file's results: None, or the parsed info (its title is all
\* that decides what main() does with the Note)
NoInfo == [none |-> TRUE, title |-> <<>>]

Info(fm) == [none |-> FALSE, title |-> Strip(FmGet(fm, "title:"), {"\""})]

\* parse_note_file without its "already linked" test
parse_note_file_unchecked(text) ==
    IF Frontmatter(text) = "nomatch" THEN NoInfo
    ELSE Info(Frontmatter(text))

\* parse_note_file(md_path)
parse_note_file(text) ==
    IF Frontmatter(text) = "nomatch" THEN NoInfo
    ELSE IF FmGet(Frontmatter(text), "zotero_key:") # <<>> THEN NoInfo
    ELSE Info(Frontmatter(text))

\* write_zotero_key(md_path, key): the file's text afterwards
write_zotero_key(text, key) ==
    LET has == \E k \in 1..Len(text) : \E i \in 1..Len(text[k]) : text[k][i] = "zotero_key:"
        created == {k \in 1..Len(text) : text[k] # <<>> /\ text[k][1] = "created:"}
    IN IF has
       THEN [k \in 1..Len(text) |->
                IF text[k] # <<>> /\ text[k][1] = "zotero_key:"
                THEN <<"zotero_key:", " ", key>> ELSE text[k]]
       ELSE IF created = {} THEN text
       ELSE LET c == CHOOSE k \in created : \A j \in created : k <= j IN
            SubSeq(text, 1, c) \o << <<"zotero_key:", " ", key>> >> \o SubSeq(text, c + 1, Len(text))

\* the Notes main() sends to the remote
ImportTargets(files) ==
    {n \in DOMAIN files : /\ n[Len(n)] = ".md"
                          /\ ~parse_note_file(files[n]).none
                          /\ parse_note_file(files[n]).title # <<>>}

(***************************************************************************)
(* SpecVault: the operations that write Notes, on one directory            *)
(***************************************************************************)
TitlePool ==
    {<<"A", " ", "b">>, <<"a", " ", " ", "b">>, <<"<", "i", ">", "A", "<", "/", "i", ">", " ", "b">>,
     <<"B">>, <<>>}

VaultItems ==
    {[key |-> k, data |-> ItemData(D, 2, 1, t, 1)] :
        k \in {"K1", "K2"}, D \in {{}, {"DOI"}}, t \in {<<"A", " ", "b">>, <<"B">>}}

NoFiles == <<>>

\* a Note of an older template: no zotero_key and no doi line in the header
LegacyNote ==
    LET g == MARKDOWN_TEMPLATE(EmptySummary) IN
    SubSeq(g, 1, HeaderEnd - 3) \o SubSeq(g, HeaderEnd, Len(g))

\* the keys the remote hands out to imported Notes
ImportKeys == {"K8", "K9"}

InitVault ==
    /\ \E it \in {i \in VaultItems : i.key = "K1"}, unlinked \in BOOLEAN, legacy \in BOOLEAN :
          LET linked == generate_markdown(NoFiles, summarize_paper(PaperOf(it.key, "none"),
                                              build_biblio(it), "none"), <<it.key, ".pdf">>, it.key)
              more == IF unlinked
                      THEN generate_markdown(linked, summarize_paper(PaperOf("x", "pdf"),
                                  build_biblio([key |-> "", data |-> ItemData({}, 1, 1, <<"C">>, 0)]),
                                  "parsed"), <<"file", ".pdf">>, "")
                      ELSE linked
          IN vFiles = IF legacy
                      THEN [n \in DOMAIN more \cup {<<"@", "_", "T", ".md">>} |->
                               IF n \in DOMAIN more THEN more[n] ELSE LegacyNote]
                      ELSE more
    /\ vOps = {}
    /\ vUsed = {}
    /\ IdleMerge
    /\ IdleSync
    /\ IdleWatch
    /\ IdlePush
    /\ IdleExtra

\* update_existing_markdown(item): find the Note, merge, write when changed
VaultMerge(item) ==
    /\ \E md \in find_markdown_by_key(vFiles, item.key) :
          \E r \in {update_existing_markdown(vFiles[md], item)} :
             /\ ~r.raised /\ r.changed
             /\ vFiles' = [vFiles EXCEPT ![md] = r.text]
    /\ vOps' = vOps \cup {"merge"}
    /\ UNCHANGED <<vUsed, mvars, svars, wvars, qvars, xvars>>

\* process_item(item), as far as the Note directory goes: generate_markdown
VaultProcess(item, stage2) ==
    /\ Cardinality(DOMAIN vFiles) < MaxFiles
    /\ LET paper == PaperOf(item.key, "none") IN
       vFiles' = generate_markdown(vFiles, summarize_paper(paper, build_biblio(item), stage2),
                                   paper.file_name, item.key)
    /\ vOps' = vOps \cup {"process"}
    /\ UNCHANGED <<vUsed, mvars, svars, wvars, qvars, xvars>>

\* main() of the import script: every target is sent; the Notes in ok get a
\* new key written back, the others failed
VaultImport(ok, keyOf) ==
    /\ ok # {}
    /\ ok \subseteq ImportTargets(vFiles)
    /\ \A n \in ok : keyOf[n] \notin vUsed
    /\ \A n1, n2 \in ok : keyOf[n1] = keyOf[n2] => n1 = n2
    /\ vFiles' = [n \in DOMAIN vFiles |->
                     IF n \in ok THEN write_zotero_key(vFiles[n], keyOf[n]) ELSE vFiles[n]]
    /\ vUsed' = vUsed \cup {keyOf[n] : n \in ok}
    /\ vOps' = vOps \cup {"import"}
    /\ UNCHANGED <<mvars, svars, wvars, qvars, xvars>>

\* push_to_zotero(md_path): reads the Note, writes no file
VaultPush(md) ==
    /\ md \in DOMAIN vFiles
    /\ NoteKey(vFiles[md]) # <<>>
    /\ vOps' = vOps \cup {"push"}
    /\ UNCHANGED <<vFiles, vUsed, mvars, svars, wvars, qvars, xvars>>

NextVault ==
    \/ \E item \in VaultItems : VaultMerge(item)
    \/ \E item \in VaultItems, stage2 \in {"none", "parsed"} : VaultProcess(item, stage2)
    \/ \E ok \in SUBSET DOMAIN vFiles : \E keyOf \in [ok -> ImportKeys] : VaultImport(ok, keyOf)
    \/ \E md \in DOMAIN vFiles : VaultPush(md)

SpecVault == InitVault /\ [][NextVault]_vars

\* C9: a Note whose header holds a zotero_key keeps that key, and stays in
\* the directory, under every step of the sync engine (merge, push, process
\* with generate_markdown) and of the import script.
C9_KeyImmutable ==
    [][\A n \in DOMAIN vFiles :
          HeaderKey(vFiles[n]) # <<>> =>
              /\ n \in DOMAIN vFiles'
              /\ HeaderKey(vFiles'[n]) = HeaderKey(vFiles[n])]_vars

\* a directory in which all four operations have acted and whose linked Note
\* was rewritten by a merge
C9_Witness ==
    /\ vOps = {"merge", "process", "import", "push"}
    /\ \E n \in DOMAIN vFiles : HeaderKey(vFiles[n]) = <<"K1">> /\ HeaderDoiValue(vFiles[n]) # <<>>
    /\ \E n \in DOMAIN vFiles : HeaderKey(vFiles[n]) \in {<<"K8">>, <<"K9">>}

(***************************************************************************)
(* Spec: watch_zotero's polling loop against a changing remote library     *)
(***************************************************************************)
\* the titles remote items carry: two that normalize alike, one that differs
SyncTitles == {<<"A", " ", "b">>, <<"a", " ", " ", "b">>, <<"B">>}

\* the item the API returns for key k
ItemOf(k, r) ==
    [key |-> k, data |-> [ItemData({"DOI"}, r.doi, 1, r.title, r.ver) EXCEPT !.itemType = r.type]]

\* zot.items(since=last_version, ...): the keys of the items changed since
ItemsSince(since) == {k \in Keys : remote[k].ver > since}

\* the orders in which the API may list the keys of S
Orders(S) == {o \in [1..Cardinality(S) -> S] : \A i, j \in 1..Cardinality(S) : o[i] = o[j] => i = j}

\* load_state()
load_state == disk

\* get_new_items with the line that stores the library version left out
last_version_kept(okVersion) == state.last_version

\* state["last_version"] after the library-version query of get_new_items
last_version_after(okVersion) == IF okVersion THEN libVersion ELSE state.last_version

\* the classification loop of get_new_items over the fetched items
IsSkipped(item) == item.data.itemType \in {"attachment", "note", "thesis", "dissertation"}

IsUpdated(item) == ~IsSkipped(item) /\ item.key \in state.processed_keys

IsTitleDup(item) ==
    /\ ~IsSkipped(item) /\ item.key \notin state.processed_keys
    /\ _normalize_title(item.data.title) # <<>>
    /\ _normalize_title(item.data.title) \in state.processed_titles

\* a classification that tests the title only
IsNewIgnoringKeys(item) == ~IsSkipped(item) /\ ~IsTitleDup(item)

IsNew(item) == ~IsSkipped(item) /\ item.key \notin state.processed_keys /\ ~IsTitleDup(item)

\* the loop over updated_items: the outcomes of update_existing_markdown for
\* each in turn (an exception ends the loop)
RECURSIVE MergeUpdated(_, _)
MergeUpdated(fs, items) ==
    IF items = <<>> THEN {[vault |-> fs, raised |-> FALSE]}
    ELSE LET cands == find_markdown_by_key(fs, Head(items).key) IN
         IF cands = {} THEN MergeUpdated(fs, Tail(items))
         ELSE UNION {
                 UNION {IF r.raised THEN {[vault |-> fs, raised |-> TRUE]}
                        ELSE IF r.changed THEN MergeUpdated([fs EXCEPT ![md] = r.text], Tail(items))
                        ELSE MergeUpdated(fs, Tail(items))
                          : r \in {update_existing_markdown(fs[md], Head(items))}}
                 : md \in cands}

\* a change of the remote library moves the ghosts that wait for a quiet remote
RemoteChanged ==
    /\ gPrev' = "none"
    /\ gCrash' = IF gCrash.mid /\ ~gCrash.polled THEN [gCrash EXCEPT !.quiet = FALSE] ELSE gCrash
    /\ gFail' = gFail

\* somebody adds an item to the remote library
RemoteAdd(k, type, title) ==
    /\ libVersion < MaxVersion
    /\ remote[k].ver = 0
    /\ libVersion' = libVersion + 1
    /\ remote' = [remote EXCEPT ![k] = [ver |-> libVersion + 1, type |-> type, title |-> title, doi |-> 1]]
    /\ RemoteChanged
    /\ UNCHANGED <<state, disk, vault, pc, batch, gRan, gNotes, gDone, gLast, gFailed, gPosted, gListed,
                   mvars, vvars, wvars, qvars, xvars>>

\* somebody fills in the DOI of a remote item
RemoteEdit(k) ==
    /\ libVersion < MaxVersion
    /\ remote[k].ver > 0
    /\ remote[k].doi = 1
    /\ libVersion' = libVersion + 1
    /\ remote' = [remote EXCEPT ![k].ver = libVersion + 1, ![k].doi = 2]
    /\ RemoteChanged
    /\ UNCHANGED <<state, disk, vault, pc, batch, gRan, gNotes, gDone, gLast, gFailed, gPosted, gListed,
                   mvars, vvars, wvars, qvars, xvars>>

\* a get_new_items whose failed item query still stores the library version
on_items_failure_advancing(st) == [st EXCEPT !.last_version = libVersion]

\* the state get_new_items leaves when zot.items raises: it returns at once
on_items_failure(st) == st

\* get_new_items(): okItems / okVersion say whether the two API queries
\* work, lib_version is what state["last_version"] holds after the second
get_new_items_reading(okItems, okVersion, lib_version) ==
    IF ~okItems
    THEN /\ pc' = "save"
         /\ batch' = <<>>
         /\ state' = on_items_failure(state)
         /\ gPrev' = "no-items"
         /\ gLast' = [prev |-> gPrev, new |-> {}, updated |-> {}]
         /\ gDone' = {}
         /\ UNCHANGED <<vault, gCrash, gFail, gListed>>
    ELSE \E order \in Orders(ItemsSince(state.last_version)) :
         LET items == [i \in DOMAIN order |-> ItemOf(order[i], remote[order[i]])]
             new_items == SelectSeq(items, IsNew)
             updated_items == SelectSeq(items, IsUpdated)
             dups == {items[i].key : i \in {j \in DOMAIN items : IsTitleDup(items[j])}}
             newKeys == {new_items[i].key : i \in DOMAIN new_items}
         IN \E m \in MergeUpdated(vault, updated_items) :
            /\ vault' = m.vault
            /\ gLast' = [prev |-> gPrev, new |-> IF m.raised THEN {} ELSE newKeys,
                         updated |-> {updated_items[i].key : i \in DOMAIN updated_items}]
            /\ gPrev' = IF ~okVersion \/ m.raised THEN "failed"
                        ELSE IF new_items = <<>> THEN "ok-empty" ELSE "ok-items"
            /\ gDone' = {}
            /\ gListed' = [k \in Keys |-> IF k \in ItemsSince(state.last_version)
                                          THEN remote[k].ver ELSE gListed[k]]
            /\ gCrash' = IF gCrash.mid /\ ~gCrash.polled /\ ~m.raised
                         THEN [gCrash EXCEPT !.polled = TRUE, !.new = newKeys]
                         ELSE gCrash
            /\ gFail' = IF gFail.retry /\ ~gFail.polled /\ ~m.raised
                        THEN [gFail EXCEPT !.polled = TRUE, !.relisted = gFail.key \in newKeys]
                        ELSE gFail
            /\ IF m.raised
               THEN /\ pc' = "down"
                    /\ batch' = <<>>
                    /\ state' = EmptyState
               ELSE /\ pc' = IF new_items = <<>> THEN "save" ELSE "batch"
                    /\ batch' = new_items
                    /\ state' = [state EXCEPT !.last_version = lib_version,
                                              !.processed_keys = @ \cup dups]

\* get_new_items() with no change of the library between its two queries
get_new_items(okItems, okVersion) ==
    get_new_items_reading(okItems, okVersion, last_version_after(okVersion))

\* watch_zotero calls get_new_items
GetNewItems(okItems, okVersion) ==
    /\ pc = "poll"
    /\ get_new_items(okItems, okVersion)
    /\ UNCHANGED <<remote, libVersion, disk, gRan, gNotes, gFailed, gPosted, mvars, vvars, wvars, qvars, xvars>>

\* how process_item goes: without error, or with an error in the extraction,
\* in summarize_paper, in generate_markdown, or in the note push
ProcessOutcomes == {"ok", "extract-error", "summarize-error", "generate-error", "note-error"}

\* a post_note that lets the error of create_items through
post_note_raising(ok) == IF ok THEN "posted" ELSE "raised"

\* post_note(item_key, summary): an error of create_items is printed
post_note(ok) == IF ok THEN "posted" ELSE "logged"

\* process_item appending the normalized title without testing it
titles_after_unguarded(titles, norm_title) == titles \cup {norm_title}

\* process_item: if norm_title and norm_title not in processed_titles: append
titles_after(titles, norm_title) == IF norm_title # <<>> THEN titles \cup {norm_title} ELSE titles

\* a save_state that leaves the file as it is
save_state_skipped(st, old) == old

\* save_state(): the file holds the state
save_state(st, old) == st

\* process_item(item) for the next item of the batch.  The extraction and the
\* note push catch their errors; an error of summarize_paper or
\* generate_markdown leaves process_item and watch_zotero.
ProcessItem(stage2, outcome) ==
    /\ pc = "batch"
    /\ batch # <<>>
    /\ outcome # "ok" => Cardinality(gFailed) < MaxFaults
    /\ LET item == Head(batch)
           paper == PaperOf(item.key, IF outcome = "extract-error" THEN "pdf" ELSE "none")
           summary == summarize_paper(paper, build_biblio(item), stage2)
           norm_title == _normalize_title(item.data.title)
           generated == outcome \notin {"summarize-error", "generate-error"}
           aborted == ~generated \/ post_note(outcome # "note-error") = "raised"
       IN \E fs \in {IF generated THEN generate_markdown(vault, summary, paper.file_name, item.key)
                     ELSE vault} :
          \E st \in {[state EXCEPT !.processed_keys = @ \cup {item.key},
                                   !.processed_titles = titles_after(@, norm_title)]} :
            /\ vault' = fs
            /\ gNotes' = IF fs # vault THEN gNotes \cup {item.key} ELSE gNotes
            /\ gFailed' = IF outcome = "ok" THEN gFailed ELSE gFailed \cup {item.key}
            /\ gPosted' = IF generated /\ post_note(outcome # "note-error") = "posted"
                          THEN [gPosted EXCEPT ![item.key] = @ + 1] ELSE gPosted
            /\ gFail' = IF outcome = "ok" THEN gFail
                        ELSE [kind |-> outcome, key |-> item.key, survived |-> ~aborted,
                              recorded |-> ~aborted,
                              retry |-> aborted /\ (norm_title = <<>> \/ norm_title \notin state.processed_titles),
                              polled |-> FALSE, relisted |-> FALSE]
            /\ IF aborted
               THEN /\ state' = EmptyState
                    /\ pc' = "down"
                    /\ batch' = <<>>
                    /\ gDone' = {}
                    /\ gPrev' = "none"
                    /\ gCrash' = NoCrash
                    /\ UNCHANGED <<disk, gRan>>
               ELSE /\ state' = st
                    /\ disk' = save_state(st, disk)
                    /\ pc' = IF Tail(batch) = <<>> THEN "save" ELSE "batch"
                    /\ batch' = Tail(batch)
                    /\ gRan' = gRan \cup {item.key}
                    /\ gDone' = gDone \cup {item.key}
                    /\ UNCHANGED <<gPrev, gCrash>>
    /\ UNCHANGED <<remote, libVersion, gLast, gListed, mvars, vvars, wvars, qvars, xvars>>

\* sync.save_state() at the end of the iteration, then the sleep
SaveState ==
    /\ pc = "save"
    /\ disk' = save_state(state, disk)
    /\ pc' = "poll"
    /\ UNCHANGED <<remote, libVersion, state, vault, batch, gRan, gNotes, gDone, gCrash, gPrev, gLast,
                   gFail, gFailed, gPosted, gListed, mvars, vvars, wvars, qvars, xvars>>

\* the process is killed
Crash ==
    /\ pc # "down"
    /\ pc' = "down"
    /\ batch' = <<>>
    /\ state' = EmptyState
    /\ gDone' = {}
    /\ gPrev' = "none"
    /\ gCrash' = IF pc = "batch" /\ gDone # {} /\ batch # <<>> /\ IsNew(Head(batch))
                 THEN [mid |-> TRUE, done |-> gDone, owed |-> {Head(batch).key},
                       quiet |-> TRUE, polled |-> FALSE, new |-> {}]
                 ELSE NoCrash
    /\ UNCHANGED <<remote, libVersion, disk, vault, gRan, gNotes, gLast, gFail, gFailed, gPosted, gListed,
                   mvars, vvars, wvars, qvars, xvars>>

\* the process is started again: ZoteroSync.__init__ loads the state
Restart ==
    /\ pc = "down"
    /\ state' = load_state
    /\ pc' = "poll"
    /\ UNCHANGED <<remote, libVersion, disk, vault, batch, gRan, gNotes, gDone, gCrash, gPrev, gLast,
                   gFail, gFailed, gPosted, gListed, mvars, vvars, wvars, qvars, xvars>>

Init == IdleSync /\ IdleMerge /\ IdleVault /\ IdleWatch /\ IdlePush /\ IdleExtra

\* how stage 2 of summarize_paper ends for the items of the loop
Stage2Results == {"parsed"}

Next ==
    \/ \E k \in Keys, type \in {"journalArticle", "thesis"}, title \in SyncTitles : RemoteAdd(k, type, title)
    \/ \E k \in Keys : RemoteEdit(k)
    \/ \E okItems, okVersion \in BOOLEAN : GetNewItems(okItems, okVersion)
    \/ \E stage2 \in Stage2Results : ProcessItem(stage2, "ok")
    \/ SaveState
    \/ Crash
    \/ Restart

Spec == Init /\ [][Next]_vars

(***************************************************************************)
(* SpecRace: the library changes between the two queries of a poll         *)
(***************************************************************************)
\* get_new_items while somebody adds item k, or fills in its DOI, after
\* zot.items(since=...) has answered and before last_modified_version() is
\* asked: the list is the one of the library before the change, the version
\* stored is the one after it
GetNewItemsRaced(k, title) ==
    /\ pc = "poll"
    /\ libVersion < MaxVersion
    /\ remote[k].ver > 0 => remote[k].doi = 1
    /\ get_new_items_reading(TRUE, TRUE, libVersion + 1)
    /\ libVersion' = libVersion + 1
    /\ remote' = IF remote[k].ver = 0
                 THEN [remote EXCEPT ![k] = [ver |-> libVersion + 1, type |-> "journalArticle",
                                             title |-> title, doi |-> 1]]
                 ELSE [remote EXCEPT ![k].ver = libVersion + 1, ![k].doi = 2]
    /\ UNCHANGED <<disk, gRan, gNotes, gFailed, gPosted, mvars, vvars, wvars, qvars, xvars>>

NextRace ==
    \/ \E k \in Keys, title \in {<<"A">>, <<"B">>} : RemoteAdd(k, "journalArticle", title)
    \/ \E k \in Keys : RemoteEdit(k)
    \/ \E okItems \in BOOLEAN : GetNewItems(okItems, TRUE)
    \/ \E k \in Keys, title \in {<<"A">>, <<"B">>} : GetNewItemsRaced(k, title)
    \/ \E stage2 \in Stage2Results : ProcessItem(stage2, "ok")
    \/ SaveState

SpecRace == Init /\ [][NextRace]_vars

\* C35: while the process runs, every remote item whose version is not past
\* last_version, so that no later poll lists it as it is, was listed by
\* zot.items at that version, that is handed to the classification.
C35_EveryChangeListed ==
    pc # "down" =>
        \A k \in Keys : (remote[k].ver > 0 /\ remote[k].ver <= state.last_version)
                            => gListed[k] = remote[k].ver

(***************************************************************************)
(* SpecKill: the poll loop killed inside process_item                      *)
(***************************************************************************)
\* the process is killed inside process_item after post_note has created
\* the annotation and before the key is appended and the state saved
KillAfterNote ==
    /\ pc = "batch"
    /\ batch # <<>>
    /\ gPosted[Head(batch).key] < MaxPosts
    /\ LET item == Head(batch)
           paper == PaperOf(item.key, "none")
           fs == generate_markdown(vault, summarize_paper(paper, build_biblio(item), "parsed"),
                                   paper.file_name, item.key)
       IN /\ vault' = fs
          /\ gNotes' = IF fs # vault THEN gNotes \cup {item.key} ELSE gNotes
          /\ gPosted' = [gPosted EXCEPT ![item.key] = @ + 1]
    /\ pc' = "down"
    /\ batch' = <<>>
    /\ state' = EmptyState
    /\ gDone' = {}
    /\ gPrev' = "none"
    /\ gCrash' = NoCrash
    /\ UNCHANGED <<remote, libVersion, disk, gRan, gLast, gFail, gFailed, gListed, mvars, vvars, wvars, qvars, xvars>>

NextKill ==
    \/ \E k \in Keys, title \in {<<"A">>, <<"B">>} : RemoteAdd(k, "journalArticle", title)
    \/ \E k \in Keys : RemoteEdit(k)
    \/ \E okItems \in BOOLEAN : GetNewItems(okItems, TRUE)
    \/ \E stage2 \in Stage2Results : ProcessItem(stage2, "ok")
    \/ SaveState
    \/ KillAfterNote
    \/ Restart

SpecKill == Init /\ [][NextKill]_vars

\* C38: no item has more than one analysis annotation created for it on the
\* remote, whatever polls, kills and restarts there were.
C38_AnnotationOnce == \A k \in Keys : gPosted[k] <= 1

(***************************************************************************)
(* SpecInterrupt: the poll loop stopped by KeyboardInterrupt                *)
(***************************************************************************)
\* Ctrl+C while watch_zotero runs: KeyboardInterrupt is raised where the
\* process stands (it is no Exception, so no handler of process_item takes
\* it), and the handler of watch_zotero saves the state.  With inItem the
\* process stands inside process_item, after generate_markdown has written
\* the Note of the item and before its key is recorded.
Interrupt(inItem) ==
    /\ pc # "down"
    /\ inItem => (pc = "batch" /\ batch # <<>>)
    /\ disk' = save_state(state, disk)
    /\ pc' = "down"
    /\ batch' = <<>>
    /\ state' = EmptyState
    /\ gDone' = {}
    /\ gPrev' = "none"
    /\ gCrash' = IF pc = "batch" /\ batch # <<>>
                 THEN [mid |-> TRUE, done |-> gDone,
                       owed |-> {batch[i].key : i \in {j \in DOMAIN batch : IsNew(batch[j])}},
                       quiet |-> TRUE, polled |-> FALSE, new |-> {}]
                 ELSE NoCrash
    /\ IF inItem
       THEN LET item == Head(batch)
                paper == PaperOf(item.key, "none")
                fs == generate_markdown(vault, summarize_paper(paper, build_biblio(item), "parsed"),
                                        paper.file_name, item.key)
            IN /\ vault' = fs
               /\ gNotes' = IF fs # vault THEN gNotes \cup {item.key} ELSE gNotes
       ELSE UNCHANGED <<vault, gNotes>>
    /\ UNCHANGED <<remote, libVersion, gRan, gLast, gFail, gFailed, gPosted, gListed, mvars, vvars, wvars, qvars, xvars>>

NextInterrupt ==
    \/ \E k \in Keys, title \in {<<"A">>, <<"B">>} : RemoteAdd(k, "journalArticle", title)
    \/ \E k \in Keys : RemoteEdit(k)
    \/ \E okItems \in BOOLEAN : GetNewItems(okItems, TRUE)
    \/ \E stage2 \in Stage2Results : ProcessItem(stage2, "ok")
    \/ SaveState
    \/ \E inItem \in BOOLEAN : Interrupt(inItem)
    \/ Restart

SpecInterrupt == Init /\ [][NextInterrupt]_vars

\* C31: when an interrupt stopped the process in a batch, the items of the
\* batch whose process_item had returned are in the state file, and every
\* other new item of the batch is returned as new by the first poll after
\* the restart (the remote unchanged in between).
C31_InterruptLosesNothing ==
    gCrash.mid =>
        /\ gCrash.done \subseteq disk.processed_keys
        /\ (gCrash.polled /\ gCrash.quiet) => gCrash.owed \subseteq gCrash.new

(***************************************************************************)
(* SpecFaults: the poll loop whose process_item meets errors                *)
(***************************************************************************)
\* the titles of the journal articles of SpecFaults
FaultTitles == {<<"A", " ", "b">>, <<"B">>}

NextFaults ==
    \/ \E k \in Keys, title \in FaultTitles : RemoteAdd(k, "journalArticle", title)
    \/ \E k \in Keys : RemoteEdit(k)
    \/ \E okItems \in BOOLEAN : GetNewItems(okItems, TRUE)
    \/ \E stage2 \in Stage2Results, outcome \in ProcessOutcomes : ProcessItem(stage2, outcome)
    \/ SaveState
    \/ Crash
    \/ Restart

SpecFaults == Init /\ [][NextFaults]_vars

\* titles that normalize to the empty string (no title, blanks, only an
\* HTML tag) and one that does not
BlankTitles == {<<>>, <<" ", "\t">>, <<"<", "i", ">">>, <<"B">>}

NextTitles ==
    \/ \E k \in Keys, title \in BlankTitles : RemoteAdd(k, "journalArticle", title)
    \/ \E k \in Keys : RemoteEdit(k)
    \/ \E okVersion \in BOOLEAN : GetNewItems(TRUE, okVersion)
    \/ \E stage2 \in Stage2Results : ProcessItem(stage2, "ok")
    \/ SaveState
    \/ Crash
    \/ Restart

SpecTitles == Init /\ [][NextTitles]_vars

\* C22: the empty string is never in processed_titles, in memory or in the
\* state file, and the keys a get_new_items call adds to processed_keys (the
\* items it classifies as duplicates by title) all have a normalized title
\* that is not empty.
C22_EmptyTitleNeverKey ==
    [][/\ <<>> \notin state'.processed_titles
       /\ <<>> \notin disk'.processed_titles
       /\ (pc = "poll" /\ pc' \in {"batch", "save"}) =>
             \A k \in state'.processed_keys \ state.processed_keys :
                 _normalize_title(remote[k].title) # <<>>]_vars

\* process_item has run for two items whose titles both normalize to the
\* empty string, one after the other was saved
C22_Witness ==
    /\ gRan = Keys /\ Keys \subseteq disk.processed_keys
    /\ \A k \in Keys : _normalize_title(remote[k].title) = <<>>
    /\ remote["K1"].title # remote["K2"].title
    /\ gLast.new # Keys

\* C11: when process_item meets an error for one new item, the loop keeps
\* running and goes on with the remaining items of the batch.
C11_FailureIsolated == gFail.kind # "none" => gFail.survived

\* C12: a new item whose process_item met an error is not added to
\* processed_keys, and the next get_new_items that succeeds returns it as
\* new again (items whose normalized title is already processed aside).
C12_FailedItemRetried ==
    gFail.kind # "none" => (~gFail.recorded /\ (gFail.polled => gFail.relisted))

\* the items the item query of get_new_items lists
Listed == ItemsSince(state.last_version)

\* C13: processed_keys only grows, in the state file and in a running
\* process; the process that starts reads the keys of the file; and a
\* listed item whose key is in processed_keys is never returned as new,
\* whatever its version or DOI has become, but handed to
\* update_existing_markdown.
C13_ProcessedKeysGrow ==
    [][/\ disk.processed_keys \subseteq disk'.processed_keys
       /\ (pc # "down" /\ pc' # "down") => state.processed_keys \subseteq state'.processed_keys
       /\ (pc = "down" /\ pc' # "down") => state'.processed_keys = disk.processed_keys
       /\ (pc = "poll" /\ pc' \in {"save", "batch"}) =>
             /\ gLast'.new \cap state.processed_keys = {}
             /\ \A i \in DOMAIN batch' : batch'[i].key \notin state.processed_keys
             /\ gPrev' # "no-items" =>
                   (Listed \cap state.processed_keys) \subseteq gLast'.updated]_vars

\* get_new_items has listed a processed item whose remote version moved,
\* and has merged it
C13_Witness ==
    /\ pc = "save"
    /\ gLast.updated # {}
    /\ gLast.new = {}
    /\ \E k \in gLast.updated : k \in state.processed_keys /\ remote[k].doi = 2

\* C14: a get_new_items whose item query fails returns no item and leaves
\* last_version, processed_keys and processed_titles as they were, in the
\* process and in the state file.
C14_ItemsFailureKeepsState ==
    [][(pc = "poll" /\ pc' = "save" /\ gPrev' = "no-items") =>
          (state' = state /\ disk' = disk /\ batch' = <<>> /\ gLast'.new = {})]_vars

\* the item query has failed while the remote library was ahead of
\* last_version
C14_Witness ==
    /\ pc = "save"
    /\ gPrev = "no-items"
    /\ Listed # {}
    /\ state.last_version < libVersion

\* C36: every key process_item has added to processed_keys has a Note in
\* the vault whose header back-references the key.
C36_ProcessedKeyHasNote ==
    \A k \in gRan : \E n \in DOMAIN vault : HeaderKey(vault[n]) = <<k>>

\* C17: the state file holds the key and the normalized title of every
\* item whose process_item has returned, at every point of a batch and
\* after a kill.
C17_PersistedPerItem ==
    \A k \in gRan :
        /\ k \in disk.processed_keys
        /\ _normalize_title(remote[k].title) # <<>> =>
              _normalize_title(remote[k].title) \in disk.processed_titles

\* the process was killed in a batch after process_item had returned for
\* one of its items
C17_Witness ==
    /\ pc = "down"
    /\ gCrash.mid
    /\ gCrash.done # {}
    /\ gCrash.done \subseteq gRan

\* C18: when post_note fails for an item, the Note written for the item
\* stays in the vault and the key and normalized title of the item are in
\* the state and in the state file.
C18_NoteFailureKeepsWork ==
    gFail.kind = "note-error" =>
        /\ gFail.key \in disk.processed_keys
        /\ _normalize_title(remote[gFail.key].title) \in disk.processed_titles
        /\ pc # "down" => gFail.key \in state.processed_keys
        /\ gFail.key \in gNotes => find_markdown_by_key(vault, gFail.key) # {}

\* post_note has failed for an item whose Note was written, and the
\* process has been killed and started again since
C18_Witness ==
    /\ gFail.kind = "note-error"
    /\ gFail.key \in gNotes
    /\ pc = "poll"
    /\ gFail.key \in state.processed_keys

\* C1: when the process was killed in a batch after process_item had finished
\* item A and before the next new item B was processed, and the remote did
\* not change until the first get_new_items after the restart, that call
\* returns B as new and does not return A.
C1_CrashResume ==
    (gCrash.mid /\ gCrash.polled /\ gCrash.quiet) =>
        (gCrash.owed \subseteq gCrash.new /\ gCrash.done \cap gCrash.new = {})

\* C2: of two remote items with different keys and equal, non-empty
\* normalized titles, process_item runs for at most one and at most one
\* gets a Note.
C2_TitleDedup ==
    \A k1, k2 \in Keys :
        (/\ k1 # k2
         /\ remote[k1].ver > 0 /\ remote[k2].ver > 0
         /\ _normalize_title(remote[k1].title) # <<>>
         /\ _normalize_title(remote[k1].title) = _normalize_title(remote[k2].title))
        => (~({k1, k2} \subseteq gRan) /\ ~({k1, k2} \subseteq gNotes))

(***************************************************************************)
(* SpecClassify: get_new_items called at any time by its owner             *)
(***************************************************************************)
\* get_new_items() called again, whatever is left of the last batch dropped
CallGetNewItems(okItems, okVersion) ==
    /\ pc \in {"poll", "batch", "save"}
    /\ get_new_items(okItems, okVersion)
    /\ UNCHANGED <<remote, libVersion, disk, gRan, gNotes, gFailed, gPosted, mvars, vvars, wvars, qvars, xvars>>

NextClassify ==
    \/ \E k \in Keys, type \in {"journalArticle", "thesis"}, title \in SyncTitles : RemoteAdd(k, type, title)
    \/ \E k \in Keys : RemoteEdit(k)
    \/ \E okItems, okVersion \in BOOLEAN : CallGetNewItems(okItems, okVersion)
    \/ \E stage2 \in Stage2Results : ProcessItem(stage2, "ok")
    \/ SaveState

SpecClassify == Init /\ [][NextClassify]_vars

\* C3 as stated: a get_new_items call that follows another get_new_items call
\* with no remote change between the two returns no new item.
C3_SecondCallEmpty == gLast.prev # "none" => gLast.new = {}

\* C3, amended: a get_new_items call that follows a get_new_items call whose
\* item query and library-version query both succeeded, with no remote change
\* between the two, returns no new item.
C3_SecondCallEmptyAfterSuccess == gLast.prev \in {"ok-empty", "ok-items"} => gLast.new = {}

\* a second call right after a successful call that had returned new items
C3_Witness == gLast.prev = "ok-items" /\ gLast.new = {} /\ gPrev = "ok-empty" /\ gRan = {}

(***************************************************************************)
(* SpecWatch: ObsidianWatcher's scan and the self-modified marks           *)
(***************************************************************************)
SELF_MODIFY_COOLDOWN == 3

Contents == {"c0", "c1", "c2"}

\* _hash(text)
_hash(text) == <<"md5", text>>

\* _is_self_modified without the cooldown test: a mark that never expires
_is_self_modified_forever(ts, now) == ts # 0

\* _is_self_modified(path_str): ts is the path's entry, 0 when it has none
_is_self_modified(ts, now) == ts # 0 /\ now - ts < SELF_MODIFY_COOLDOWN

\* the path's mark is inside its cooldown window
Active(p) == wMark[p] # 0 /\ wNow - wMark[p] < SELF_MODIFY_COOLDOWN

\* scan() with no first-observation branch: a path without a snapshot is
\* compared with nothing
DiffersUnregistered(p) ==
    /\ wDisk[p].mtime # wSnap[p].mtime
    /\ _hash(wDisk[p].content) # wSnap[p].hash

\* scan() comparing the modification time alone
DiffersByMtime(p) ==
    /\ wSnap[p] # NoSnapshot
    /\ wDisk[p].mtime # wSnap[p].mtime

\* scan() finds the mtime of p different from the snapshot and the hash the same
Touched(p) ==
    /\ wSnap[p] # NoSnapshot
    /\ wDisk[p].mtime # wSnap[p].mtime
    /\ _hash(wDisk[p].content) = wSnap[p].hash

\* scan() finds mtime and hash of p both different from the snapshot
Differs(p) ==
    /\ wSnap[p] # NoSnapshot
    /\ wDisk[p].mtime # wSnap[p].mtime
    /\ _hash(wDisk[p].content) # wSnap[p].hash

\* time passes
Tick ==
    /\ wNow < MaxTime
    /\ wNow' = wNow + 1
    /\ UNCHANGED <<wWrites, wDisk, wSnap, wMark, wChanged, wPending, wExt, wOwn, wLog, mvars, vvars, svars, qvars, xvars>>

\* scan()
Scan ==
    LET selfmod == {p \in Paths : Differs(p) /\ _is_self_modified(wMark[p], wNow)}
        changed == {p \in Paths : Differs(p) /\ ~_is_self_modified(wMark[p], wNow)}
    IN /\ wChanged' = changed
       /\ wSnap' = [p \in Paths |->
                       IF wSnap[p] = NoSnapshot \/ Differs(p)
                       THEN [mtime |-> wDisk[p].mtime, hash |-> _hash(wDisk[p].content)]
                       ELSE wSnap[p]]
       /\ wMark' = [p \in Paths |-> IF p \in changed THEN 0 ELSE wMark[p]]
       /\ wPending' = {}
       /\ wExt' = {}
       /\ wOwn' = {p \in wOwn : ~Differs(p)}
       /\ wLog' = [suppressed |-> wLog.suppressed \cup selfmod,
                   reported   |-> wLog.reported \cup (wPending \cap changed),
                   leaked     |-> wLog.leaked \cup {p \in changed : Active(p)},
                   missed     |-> wLog.missed \cup (wPending \ changed),
                   returned   |-> wLog.returned \cup changed,
                   touched    |-> wLog.touched \cup {p \in Paths : Touched(p)},
                   echoed     |-> wLog.echoed \cup (changed \cap wOwn),
                   swallowed  |-> wLog.swallowed \cup (wExt \cap selfmod)]
       /\ UNCHANGED <<wNow, wWrites, wDisk, mvars, vvars, svars, qvars, xvars>>

\* the merge engine rewrites a Note: mark_self_modified(md_path), then the write
MarkAndWrite(p, c) ==
    /\ wWrites < MaxWrites
    /\ c # wDisk[p].content
    /\ wMark' = [wMark EXCEPT ![p] = wNow]
    /\ wWrites' = wWrites + 1
    /\ wDisk' = [wDisk EXCEPT ![p] = [mtime |-> wWrites + 1, content |-> c]]
    /\ wPending' = wPending \ {p}
    /\ wExt' = wExt \ {p}
    /\ wOwn' = IF wSnap[p] # NoSnapshot /\ _hash(wDisk[p].content) = wSnap[p].hash
               THEN wOwn \cup {p} ELSE wOwn
    /\ UNCHANGED <<wNow, wSnap, wChanged, wLog, mvars, vvars, svars, qvars, xvars>>

\* a human saves the Note with new content
ExternalEdit(p, c) ==
    /\ wWrites < MaxWrites
    /\ c # wDisk[p].content
    /\ wWrites' = wWrites + 1
    /\ wDisk' = [wDisk EXCEPT ![p] = [mtime |-> wWrites + 1, content |-> c]]
    /\ wPending' = IF /\ wMark[p] # 0 /\ ~Active(p)
                      /\ wSnap[p] # NoSnapshot /\ _hash(c) # wSnap[p].hash
                   THEN wPending \cup {p} ELSE wPending \ {p}
    /\ wExt' = IF wSnap[p] # NoSnapshot /\ _hash(c) # wSnap[p].hash THEN wExt \cup {p} ELSE wExt \ {p}
    /\ wOwn' = wOwn \ {p}
    /\ UNCHANGED <<wNow, wSnap, wMark, wChanged, wLog, mvars, vvars, svars, qvars, xvars>>

\* the Note is saved again with the content it has
Touch(p) ==
    /\ wWrites < MaxWrites
    /\ wWrites' = wWrites + 1
    /\ wDisk' = [wDisk EXCEPT ![p].mtime = wWrites + 1]
    /\ UNCHANGED <<wNow, wSnap, wMark, wChanged, wPending, wExt, wOwn, wLog, mvars, vvars, svars, qvars, xvars>>

NextWatch ==
    \/ Tick
    \/ Scan
    \/ \E p \in Paths, c \in Contents : MarkAndWrite(p, c)
    \/ \E p \in Paths, c \in Contents : ExternalEdit(p, c)
    \/ \E p \in Paths : Touch(p)

SpecWatch == Init /\ [][NextWatch]_vars

\* C6: scan() returns no path whose mark is younger than SELF_MODIFY_COOLDOWN,
\* and an external edit (mtime and content different from the snapshot) made
\* to a marked path after its cooldown expired, with no new mark since, is
\* returned by the next scan().
C6_SelfModifySuppression == wLog.leaked = {} /\ wLog.missed = {}

\* a path that a scan suppressed inside the cooldown and that a later scan
\* returned for an external edit made after the cooldown
C6_Witness == \E p \in Paths : p \in wLog.suppressed /\ p \in wLog.reported /\ p \in wChanged

\* a step of scan(): the clock and the files are as they were
ScanStep == wNow' = wNow /\ wWrites' = wWrites /\ wDisk' = wDisk

\* C23: the scan() that first observes a Note file records the file's mtime
\* and hash as its snapshot and does not return the file, whatever its
\* content and modification time are.
C23_FirstScanBaseline ==
    [][\A p \in Paths :
          (wSnap[p] = NoSnapshot /\ wSnap'[p] # NoSnapshot) =>
              /\ ScanStep
              /\ p \notin wChanged'
              /\ wSnap'[p] = [mtime |-> wDisk[p].mtime, hash |-> _hash(wDisk[p].content)]]_vars

\* a file written with new content before the first scan: the scan took its
\* snapshot, and no scan has returned or suppressed it
C23_Witness ==
    \E p \in Paths :
        /\ wSnap[p] = [mtime |-> wDisk[p].mtime, hash |-> _hash(wDisk[p].content)]
        /\ wDisk[p].mtime > 0 /\ wDisk[p].content # "c0"
        /\ p \notin wLog.returned \cup wLog.suppressed

\* C24: scan() returns a file only if its mtime and its hash both differ from
\* its snapshot; a file whose mtime differs and whose hash is the same is not
\* returned and keeps its snapshot, so that a later change of its content,
\* made outside the cooldown of a self-modified mark, is returned.
C24_BothDiffer ==
    [][ScanStep =>
          \A p \in Paths :
              /\ p \in wChanged' =>
                    /\ wSnap[p] # NoSnapshot
                    /\ wDisk[p].mtime # wSnap[p].mtime
                    /\ _hash(wDisk[p].content) # wSnap[p].hash
              /\ (wSnap[p] # NoSnapshot /\ _hash(wDisk[p].content) = wSnap[p].hash) =>
                    (p \notin wChanged' /\ wSnap'[p] = wSnap[p])
              /\ (/\ wSnap[p] # NoSnapshot
                  /\ wDisk[p].mtime # wSnap[p].mtime
                  /\ _hash(wDisk[p].content) # wSnap[p].hash
                  /\ ~(wMark[p] # 0 /\ wNow - wMark[p] < SELF_MODIFY_COOLDOWN)) =>
                    p \in wChanged']_vars

\* a file that a scan found touched (new mtime, same content) and left out,
\* and that the latest scan returned after its content changed
C24_Witness ==
    \E p \in Paths : p \in wLog.touched /\ p \in wChanged /\ wDisk[p].content # "c0"

\* C37: no scan() takes a human's edit of a Note (new mtime, content other
\* than the snapshot's) into the snapshot without returning the Note; an
\* edit so taken is never returned by a later scan, since the file then
\* equals its snapshot.
C37_ExternalEditReturned == wLog.swallowed = {}

\* C27: scan() never returns a Note whose only difference from its snapshot
\* is what update_existing_markdown wrote, however much time has passed
\* between the write and the scan.
C27_OwnWriteNeverPushed == wLog.echoed = {}

(***************************************************************************)
(* SpecPush: push_to_zotero against a remote item others edit too          *)
(***************************************************************************)
\* get_field(label): the first place where the label is followed by at least
\* one character on its line; "" for a blank value, a quote mark or a dash
get_field(text, f) ==
    LET at == {x \in UNION {{<<k, i>> : i \in 1..Len(text[k])} : k \in 1..Len(text)} :
                  x[2] < Len(text[x[1]]) /\ text[x[1]][x[2]] = Label[f]}
    IN IF at = {} THEN <<>>
       ELSE LET first == CHOOSE x \in at : \A y \in at : x[1] < y[1] \/ (x[1] = y[1] /\ x[2] <= y[2])
                line == text[first[1]]
                val == RStrip(Strip(SubSeq(line, first[2] + 1, Len(line)), Whitespace), {"\r"})
            IN IF val # <<>> /\ val[1] # ">" /\ val # <<"-">> THEN val ELSE <<>>

\* the tags of the frontmatter, "literature" and "paper" left out
NoteTags(text) ==
    LET fm == Frontmatter(text)
        at == {k \in 1..Len(fm) : fm[k] # <<>> /\ fm[k][1] = "tags:"}
    IN IF at = {} THEN {}
       ELSE LET line == fm[CHOOSE k \in at : \A j \in at : k <= j] IN
            {line[i] : i \in 2..Len(line)} \ {"[", "]", ",", " ", "\"", "literature", "paper"}

\* field_map: Note field -> remote data field; the author is left out
field_map ==
    << <<"journal", "publicationTitle">>, <<"publisher", "publisher">>, <<"volume", "volume">>,
       <<"issue", "issue">>, <<"pages", "pages">>, <<"doi", "DOI">>, <<"issn", "ISSN">>,
       <<"url", "url">>, <<"language", "language">> >>

\* updates with ("저자", "creators") in field_map in place of ("저자", None):
\* the author line, a string, differs from any list of creators
UpdatesWithAuthor(text, data) ==
    LET diff == {i \in DOMAIN field_map :
                    /\ get_field(text, field_map[i][1]) # <<>>
                    /\ get_field(text, field_map[i][1]) # data[field_map[i][2]]}
        author == IF get_field(text, "author") # <<>>
                  THEN {<<"creators", get_field(text, "author")>>} ELSE {}
    IN [fields |-> {<<field_map[i][2], get_field(text, field_map[i][1])>> : i \in diff} \cup author,
        tagsChanged |-> NoteTags(text) # data.tags,
        tags |-> NoteTags(text)]

\* updates: the tags when they differ as sets, and the fields whose Note
\* value is not empty and differs from the remote value
Updates(text, data) ==
    LET diff == {i \in DOMAIN field_map :
                    /\ get_field(text, field_map[i][1]) # <<>>
                    /\ get_field(text, field_map[i][1]) # data[field_map[i][2]]}
    IN [fields |-> {<<field_map[i][2], get_field(text, field_map[i][1])>> : i \in diff},
        tagsChanged |-> NoteTags(text) # data.tags,
        tags |-> NoteTags(text)]

NoUpdates == [fields |-> {}, tagsChanged |-> FALSE, tags |-> {}]

\* updated_data = dict(data); updated_data.update(updates)
UpdatedData(data, updates) ==
    [d \in DOMAIN data |->
        IF \E u \in updates.fields : u[1] = d
        THEN (CHOOSE u \in updates.fields : u[1] = d)[2]
        ELSE IF d = "tags" /\ updates.tagsChanged THEN updates.tags
        ELSE data[d]]

\* an update that asks for the item's latest version first: a forced write
SentVersionLatest(data) == qRemote.version

\* "version": data.get("version", 0), the version the update is conditional on
SentVersion(data) == data.version

\* the Note with the tags a human put in the frontmatter after the two
\* tags every generated Note has
WithTags(text, tags) ==
    [k \in 1..Len(text) |->
        IF text[k] # <<>> /\ text[k][1] = "tags:"
        THEN SubSeq(text[k], 1, Len(text[k]) - 1) \o tags \o <<"]">>
        ELSE text[k]]

PushNotes ==
    {EditedNote("K1", F, 2, 1, 1, th) : F \in {{}, {"doi"}, {"url"}, {"doi", "url"}}, th \in {1, 2}}
        \cup {EditedNote("K1", F, 2, 1, 1, 1) : F \in {{"author"}, {"author", "doi"}}}
        \cup {WithTags(EditedNote("K1", F, 2, 1, 1, 1), <<",", " ", "ml">>) : F \in {{}, {"doi"}}}
        \cup {LegacyNote}

\* the tags other clients give the item
RemoteTags == {{}, {"ml"}, {"nlp"}}

InitPush ==
    /\ qNote \in PushNotes
    /\ \E D \in {{}, {"DOI"}, {"creators"}} : qRemote = ItemData(D, 2, 1, <<"T">>, 1)
    /\ qpc = "idle"
    /\ qFetched = NoData
    /\ qUpdates = NoUpdates
    /\ qRet = "none"
    /\ qLog = NoPush
    /\ IdleMerge
    /\ IdleVault
    /\ IdleSync
    /\ IdleWatch
    /\ IdleExtra

\* push_to_zotero up to the fetch of the item and the diff
PushFetch(okItem) ==
    /\ qpc = "idle"
    /\ IF \/ Frontmatter(qNote) = "nomatch"
          \/ NoteKey(qNote) = <<>>
          \/ ~okItem
          \/ (Updates(qNote, qRemote).fields = {} /\ ~Updates(qNote, qRemote).tagsChanged)
       THEN /\ qRet' = "False"
            /\ qpc' = "done"
            /\ UNCHANGED <<qFetched, qUpdates>>
       ELSE /\ qFetched' = qRemote
            /\ qUpdates' = Updates(qNote, qRemote)
            /\ qpc' = "fetched"
            /\ UNCHANGED qRet
    /\ UNCHANGED <<qNote, qRemote, qLog, mvars, vvars, svars, wvars, xvars>>

\* somebody else changes the remote item
RemoteEditItem(d, val) ==
    /\ qRemote.version < MaxVersion
    /\ qRemote[d] # val
    /\ qRemote' = [qRemote EXCEPT ![d] = val, !.version = @ + 1]
    /\ UNCHANGED <<qNote, qpc, qFetched, qUpdates, qRet, qLog, mvars, vvars, svars, wvars, xvars>>

\* zot.update_item(...) and what push_to_zotero makes of it: the remote takes
\* the write only when the version sent is the item's version
PushUpdate(okNet) ==
    /\ qpc = "fetched"
    /\ LET accepted == okNet /\ SentVersion(qFetched) = qRemote.version
           after == IF accepted
                    THEN [UpdatedData(qFetched, qUpdates) EXCEPT !.version = qRemote.version + 1]
                    ELSE qRemote
       IN /\ qRemote' = after
          /\ qRet' = IF accepted THEN "True" ELSE "False"
          /\ qLog' = [attempts |-> qLog.attempts + 1,
                      stale    |-> qFetched.version # qRemote.version,
                      before   |-> qRemote,
                      after    |-> after]
    /\ qpc' = "done"
    /\ UNCHANGED <<qNote, qFetched, qUpdates, mvars, vvars, svars, wvars, xvars>>

\* the next cycle pushes the Note again
PushAgain ==
    /\ qpc = "done"
    /\ qpc' = "idle"
    /\ qRet' = "none"
    /\ qFetched' = NoData
    /\ qUpdates' = NoUpdates
    /\ qLog' = NoPush
    /\ UNCHANGED <<qNote, qRemote, mvars, vvars, svars, wvars, xvars>>

NextPush ==
    \/ \E okItem \in BOOLEAN : PushFetch(okItem)
    \/ \E d \in {"DOI", "url"}, val \in {<<>>, <<"v1">>, <<"h1">>} : RemoteEditItem(d, val)
    \/ \E val \in RemoteTags : RemoteEditItem("tags", val)
    \/ \E okNet \in BOOLEAN : PushUpdate(okNet)
    \/ PushAgain

SpecPush == InitPush /\ [][NextPush]_vars

\* C7: when the remote item's version changed between the fetch and the
\* update of one push_to_zotero call, the update fails, the remote item is
\* as the concurrent edit left it, push_to_zotero returns False, and
\* update_item was called once.
C7_VersionGatedPush ==
    (qpc = "done" /\ qLog.stale) =>
        (qRet = "False" /\ qLog.after = qLog.before /\ qLog.attempts = 1)

\* a push whose update came after a concurrent edit of a field it wanted to set
C7_Witness ==
    /\ qpc = "done" /\ qLog.stale /\ qRet = "False"
    /\ qLog.before.DOI # qFetched.DOI
    /\ \E u \in qUpdates.fields : u[1] = "DOI"

\* the data push_to_zotero hands to update_item
SentData == UpdatedData(qFetched, qUpdates)

\* C25: an update made by push_to_zotero changes a field of the fetched data
\* (the tags included) only to the Note's value for it, and only when that
\* value is not empty; no populated value is replaced by an empty one.
C25_PushOnlyNonEmpty ==
    (qpc = "done" /\ qLog.attempts = 1) =>
        /\ \A i \in DOMAIN field_map :
              SentData[field_map[i][2]] # qFetched[field_map[i][2]] =>
                  /\ get_field(qNote, field_map[i][1]) # <<>>
                  /\ SentData[field_map[i][2]] = get_field(qNote, field_map[i][1])
        /\ SentData.tags # qFetched.tags =>
              (NoteTags(qNote) # {} /\ SentData.tags = NoteTags(qNote))

\* C26: the creators in the data push_to_zotero sends are the creators it
\* fetched, and an update the remote took leaves the item's creators as
\* they were, whatever the Note's author line holds.
C26_CreatorsUntouched ==
    (qpc = "done" /\ qLog.attempts = 1) =>
        /\ SentData.creators = qFetched.creators
        /\ qLog.after.creators = qLog.before.creators

\* an update the remote took, from a Note whose author line a human filled,
\* for an item that has creators
C26_Witness ==
    /\ qpc = "done" /\ qRet = "True" /\ qLog.attempts = 1
    /\ get_field(qNote, "author") # <<>>
    /\ qFetched.creators # <<>>
    /\ qLog.after # qLog.before

(***************************************************************************)
(* SpecFn: load_state and summarize_paper applied to one input              *)
(***************************************************************************)
\* what STATE_FILE can hold
StateFiles ==
    {"missing", "unreadable", "not-utf8", "empty", "not-json", "truncated",
     "json-null", "json-list", "json-number", "json-empty-object", "json-partial-object", "state"}

\* the states save_state has written
SavedStates ==
    {EmptyState,
     [last_version |-> 2, processed_keys |-> {"K1"}, processed_titles |-> {<<"b">>}],
     [last_version |-> 3, processed_keys |-> {"K1", "K2"}, processed_titles |-> {<<"a", " ", "b">>, <<"b">>}]}

\* a JSON value: its type and, for an object, its members
Json(type, fields) == [type |-> type, fields |-> fields]

\* the dict load_state builds when it has nothing to read
ZeroState == Json("dict", EmptyState)

\* json.load(f) for a file that decodes and parses
JsonOfFile(file, saved) ==
    IF file = "json-null" THEN Json("null", <<>>)
    ELSE IF file = "json-list" THEN Json("list", <<>>)
    ELSE IF file = "json-number" THEN Json("number", <<>>)
    ELSE IF file = "json-empty-object" THEN Json("dict", <<>>)
    ELSE IF file = "json-partial-object" THEN Json("dict", [last_version |-> saved.last_version])
    ELSE Json("dict", saved)

\* load_state() for a given STATE_FILE: only json.JSONDecodeError and
\* OSError are caught
load_state_from(file, saved) ==
    IF file = "missing" THEN [done |-> TRUE, raised |-> FALSE, value |-> ZeroState]
    ELSE IF file = "unreadable" THEN [done |-> TRUE, raised |-> FALSE, value |-> ZeroState]
    ELSE IF file = "not-utf8" THEN [done |-> TRUE, raised |-> TRUE, value |-> Json("none", <<>>)]
    ELSE IF file \in {"empty", "not-json", "truncated"}
    THEN [done |-> TRUE, raised |-> FALSE, value |-> ZeroState]
    ELSE [done |-> TRUE, raised |-> FALSE, value |-> JsonOfFile(file, saved)]

\* get_new_items and process_item run on the state: state.get(...) needs a
\* dict, and state["processed_keys"].append(key) needs the key
CanRun(value) == value.type = "dict" /\ "processed_keys" \in DOMAIN value.fields

\* what the stage-2 call of summarize_paper can give back: None (no
\* response, rate limit, error) or a text
Responses ==
    {"none", "empty", "garbage", "broken-json", "object", "fenced-object", "partial-object",
     "empty-object", "null", "list", "empty-list", "number", "zero", "string", "true", "false"}

AnalysisFields == {"abstract", "key_claims", "method", "findings", "excerpts"}

\* the members of a parsed analysis, with the values the model gives them
Stage2Fields(keys) ==
    [f \in keys |-> summarize_paper(PaperOf("K1", "none"),
                       build_biblio([key |-> "K1", data |-> ItemData({}, 1, 1, <<>>, 1)]), "parsed")[f]]

\* _parse_json_response(text): the fenced or braced part, then json.loads
_parse_json_response(text) ==
    IF text \in {"garbage", "broken-json", "empty"} THEN Json("none", <<>>)
    ELSE IF text \in {"object", "fenced-object"} THEN Json("dict", Stage2Fields(AnalysisFields))
    ELSE IF text = "partial-object" THEN Json("dict", Stage2Fields({"abstract"}))
    ELSE IF text = "empty-object" THEN Json("dict", <<>>)
    ELSE IF text = "null" THEN Json("none", <<>>)
    ELSE IF text = "list" THEN Json("list", <<>>)
    ELSE IF text = "empty-list" THEN Json("empty-list", <<>>)
    ELSE IF text = "number" THEN Json("number", <<>>)
    ELSE IF text = "zero" THEN Json("zero", <<>>)
    ELSE IF text = "string" THEN Json("string", <<>>)
    ELSE IF text = "true" THEN Json("true", <<>>)
    ELSE Json("false", <<>>)

\* the truth value Python gives a parsed response
Truthy(v) ==
    \/ v.type \in {"list", "number", "string", "true"}
    \/ v.type = "dict" /\ DOMAIN v.fields # {}

\* summarize_paper(paper, biblio) for a given stage-2 response: the record
\* it returns, or the error of result.update(parsed2)
summarize_outcome(paper, biblio, raw2) ==
    LET fallback == summarize_paper(paper, biblio, "none")
        parsed2 == _parse_json_response(raw2)
    IN IF raw2 \in {"none", "empty"} \/ ~Truthy(parsed2)
       THEN [done |-> TRUE, raised |-> FALSE, value |-> fallback]
       ELSE IF parsed2.type # "dict"
       THEN [done |-> TRUE, raised |-> TRUE, value |-> Json("none", <<>>)]
       ELSE [done |-> TRUE, raised |-> FALSE,
             value |-> [f \in DOMAIN fallback |->
                          IF f \in DOMAIN parsed2.fields /\ parsed2.fields[f] # <<>>
                          THEN parsed2.fields[f] ELSE fallback[f]]]

\* the keys of _fallback_summary that the template reads
SummaryFields ==
    {"title", "author", "year", "journal", "doi", "volume", "issue", "pages", "issn", "url",
     "language", "publisher", "abstract", "key_claims", "method", "findings", "excerpts"}

FnItems ==
    {[key |-> "K1", data |-> ItemData(D, 2, 1, t, 1)] : D \in {{}, DataFields}, t \in {<<"B">>, <<>>}}

InitFn ==
    /\ fArg \in {[fn |-> "load_state", file |-> file, saved |-> saved] :
                    file \in StateFiles, saved \in SavedStates}
               \cup {[fn |-> "summarize_paper", paper |-> PaperOf("K1", pdf), item |-> it, raw2 |-> r] :
                        pdf \in {"none", "pdf"}, it \in FnItems, r \in Responses}
    /\ fOut = NoOut
    /\ IdleExtract /\ IdleTwoWay /\ IdleMore
    /\ IdleMerge /\ IdleVault /\ IdleSync /\ IdleWatch /\ IdlePush

\* ZoteroSync.__init__ reads the state file
LoadState ==
    /\ fArg.fn = "load_state"
    /\ ~fOut.done
    /\ fOut' = load_state_from(fArg.file, fArg.saved)
    /\ UNCHANGED <<fArg, evars, tvars, mvars, vvars, svars, wvars, qvars, yvars>>

\* process_item calls summarize_paper(paper, biblio=biblio)
SummarizePaper ==
    /\ fArg.fn = "summarize_paper"
    /\ ~fOut.done
    /\ fOut' = summarize_outcome(fArg.paper, build_biblio(fArg.item), fArg.raw2)
    /\ UNCHANGED <<fArg, evars, tvars, mvars, vvars, svars, wvars, qvars, yvars>>

NextFn == LoadState \/ SummarizePaper

SpecFn == InitFn /\ [][NextFn]_vars

\* C15: load_state raises for no content of the state file, and for a
\* missing or malformed file (anything but the object with the three fields)
\* it returns the zero state, on which get_new_items and process_item run.
C15_LoadStateSoft ==
    (fArg.fn = "load_state" /\ fOut.done) =>
        /\ ~fOut.raised
        /\ fArg.file # "state" => fOut.value = ZeroState
        /\ CanRun(fOut.value)

\* C19: for every response of the stage-2 call summarize_paper returns a
\* record that holds every template field, and for a response that is not
\* an analysis object the record is the metadata-only fallback.
C19_SummaryAlways ==
    (fArg.fn = "summarize_paper" /\ fOut.done) =>
        /\ ~fOut.raised
        /\ DOMAIN fOut.value = SummaryFields
        /\ fArg.raw2 \notin {"object", "fenced-object", "partial-object"} =>
              fOut.value = summarize_paper(fArg.paper, build_biblio(fArg.item), "none")

(***************************************************************************)
(* SpecExtract: extract_new_pdfs over a folder of PDF files                 *)
(***************************************************************************)
\* the names *.pdf of PDF_DIR, in sorted order
PdfNames == <<"a.pdf", "b.pdf", "c.pdf">>

PdfSet == {PdfNames[i] : i \in DOMAIN PdfNames}

PdfTexts == {"t1", "t2"}

\* sorted(PDF_DIR.glob("*.pdf"))
pdf_files(folder) == SelectSeq(PdfNames, LAMBDA n : n \in DOMAIN folder)

\* {p["file_name"] for p in papers}
existing_names(papers) == {papers[i].file_name : i \in DOMAIN papers}

\* a test that finds no file in the cache
IsExtractedNever(name, papers) == FALSE

\* pdf_path.name in existing_names
IsExtracted(name, papers) == name \in existing_names(papers)

\* extract_one(pdf_path)
extract_one(name, folder) == [file_name |-> name, full_text |-> folder[name]]

\* the loop of extract_new_pdfs over the sorted files; fails holds the
\* files for which extract_one raises
RECURSIVE ExtractLoop(_, _, _, _, _)
ExtractLoop(files, folder, old, papers, fails) ==
    IF files = <<>> THEN papers
    ELSE IF IsExtracted(Head(files), old) \/ Head(files) \in fails
    THEN ExtractLoop(Tail(files), folder, old, papers, fails)
    ELSE ExtractLoop(Tail(files), folder, old, Append(papers, extract_one(Head(files), folder)), fails)

\* extract_new_pdfs(): papers.json after the run
extract_new_pdfs(folder, papers, fails) == ExtractLoop(pdf_files(folder), folder, papers, papers, fails)

InitExtract ==
    /\ eFolder = <<>> /\ eCache = <<>> /\ eLast = NoRun
    /\ IdleFn /\ IdleTwoWay /\ IdleMore
    /\ IdleMerge /\ IdleVault /\ IdleSync /\ IdleWatch /\ IdlePush

\* a PDF is put into PDF_DIR
AddPdf(name, text) ==
    /\ name \notin DOMAIN eFolder
    /\ eFolder' = [n \in DOMAIN eFolder \cup {name} |-> IF n = name THEN text ELSE eFolder[n]]
    /\ UNCHANGED <<eCache, eLast, fvars, tvars, mvars, vvars, svars, wvars, qvars, yvars>>

\* a PDF of PDF_DIR is replaced by another file of the same name
ChangePdf(name, text) ==
    /\ name \in DOMAIN eFolder
    /\ eFolder[name] # text
    /\ eFolder' = [eFolder EXCEPT ![name] = text]
    /\ UNCHANGED <<eCache, eLast, fvars, tvars, mvars, vvars, svars, wvars, qvars, yvars>>

\* one run of extract_new_pdfs
ExtractRun(fails) ==
    /\ eCache' = extract_new_pdfs(eFolder, eCache, fails)
    /\ eLast' = [ran |-> TRUE, before |-> eCache, folder |-> DOMAIN eFolder,
                 tried |-> {n \in DOMAIN eFolder : ~IsExtracted(n, eCache)},
                 failed |-> {n \in DOMAIN eFolder : ~IsExtracted(n, eCache) /\ n \in fails},
                 owed |-> IF eLast.ran THEN eLast.failed ELSE {}]
    /\ UNCHANGED <<eFolder, fvars, tvars, mvars, vvars, svars, wvars, qvars, yvars>>

NextExtract ==
    \/ \E n \in PdfSet, t \in PdfTexts : AddPdf(n, t)
    \/ \E n \in PdfSet, t \in PdfTexts : ChangePdf(n, t)
    \/ \E fails \in SUBSET PdfSet : ExtractRun(fails)

SpecExtract == InitExtract /\ [][NextExtract]_vars

\* C20: after a run of extract_new_pdfs the entries that were in the cache
\* are unchanged and in their order at its front, every new entry comes
\* after them and is a file that was tried and did not fail, no file name
\* occurs twice, a file whose extraction failed is not in the cache, and the
\* files that failed in the run before were tried again.
C20_CacheAppendOnly ==
    eLast.ran =>
        /\ Len(eLast.before) <= Len(eCache)
        /\ SubSeq(eCache, 1, Len(eLast.before)) = eLast.before
        /\ \A i, j \in DOMAIN eCache : eCache[i].file_name = eCache[j].file_name => i = j
        /\ {eCache[i].file_name : i \in (Len(eLast.before) + 1)..Len(eCache)} = eLast.tried \ eLast.failed
        /\ eLast.failed \cap existing_names(eCache) = {}
        /\ eLast.owed \subseteq eLast.tried

\* a run found an entry whose PDF had been replaced since, extracted a new
\* file, met a failing file again and appended after the old entries
C20_Witness ==
    /\ eLast.ran
    /\ eLast.before # <<>>
    /\ Len(eCache) > Len(eLast.before)
    /\ eLast.owed # {}
    /\ eLast.failed # {}
    /\ \E i \in DOMAIN eLast.before : eFolder[eCache[i].file_name] # eCache[i].full_text

(***************************************************************************)
(* SpecTwoWay: the cycles of watch_zotero over one Note and its item        *)
(***************************************************************************)
\* the values humans and other clients give a field
FieldValues == {<<>>, <<"v1">>, <<"v2">>}

\* the citation fields push_to_zotero sends, by their name in the Note
TwoWayFields == {field_map[i][1] : i \in DOMAIN field_map}

\* the data field of the item that holds citation field f
RemoteName(f) == field_map[CHOOSE i \in DOMAIN field_map : field_map[i][1] = f][2]

\* the fields humans and other clients edit in SpecTwoWay
EditedFields == {"doi"}

\* the field loop of update_existing_markdown on the values of the field
\* lines: a line whose value is blank takes the remote value, a line that
\* holds a value is left alone
merge_fields(note, data) ==
    [f \in DOMAIN note |-> IF note[f] = <<>> THEN data[RemoteName(f)] ELSE note[f]]

\* the field updates of push_to_zotero: the Note's value where it is not
\* empty and differs from the item's
push_fields(note, data) ==
    [d \in DOMAIN data |->
        IF \E f \in DOMAIN note : RemoteName(f) = d /\ note[f] # <<>> /\ note[f] # data[d]
        THEN note[CHOOSE f \in DOMAIN note : RemoteName(f) = d]
        ELSE data[d]]

\* a Note and its item in agreement, the Watcher's first scan done
InitTwoWay ==
    /\ \E v \in {<<>>, <<"v1">>} :
          /\ tNote = [f \in TwoWayFields |-> IF f \in EditedFields THEN v ELSE <<>>]
          /\ tRemote = [version |-> 1,
                        data |-> [d \in {RemoteName(f) : f \in TwoWayFields} |->
                                     IF d \in {RemoteName(f) : f \in EditedFields} THEN v ELSE <<>>]]
    /\ tLast = 1
    /\ tSnap = tNote
    /\ tEdits = 0
    /\ tExt = {}
    /\ tOwed = "none"
    /\ IdleFn /\ IdleExtract /\ IdleMore
    /\ IdleMerge /\ IdleVault /\ IdleSync /\ IdleWatch /\ IdlePush

\* a human gives a field line of the Note another value
HumanEdit(f, val) ==
    /\ tEdits < MaxEdits
    /\ tNote[f] # val
    /\ tNote' = [tNote EXCEPT ![f] = val]
    /\ tEdits' = tEdits + 1
    /\ tOwed' = "none"
    /\ tExt' = tExt \ {f}
    /\ UNCHANGED <<tRemote, tLast, tSnap, fvars, evars, mvars, vvars, svars, wvars, qvars, yvars>>

\* another client gives a field of the item another value
ClientEdit(f, val) ==
    /\ tEdits < MaxEdits
    /\ tRemote.data[RemoteName(f)] # val
    /\ tRemote' = [version |-> tRemote.version + 1,
                   data |-> [tRemote.data EXCEPT ![RemoteName(f)] = val]]
    /\ tEdits' = tEdits + 1
    /\ tExt' = tExt \cup {f}
    /\ UNCHANGED <<tNote, tLast, tSnap, tOwed, fvars, evars, mvars, vvars, svars, wvars, qvars, yvars>>

\* the Note holds a value push_to_zotero would send: not empty and not the
\* item's
PushOwed(note, data) == \E f \in DOMAIN note : note[f] # <<>> /\ note[f] # data[RemoteName(f)]

\* scan(): the snapshot is the Note as this scan read it, returned or not
snapshot_after(snap, note, changed) == note

\* one iteration of the loop of watch_zotero: get_new_items merges the
\* item when its version is past last_version (and marks the Note it
\* writes as self-modified), scan compares the Note with its snapshot and
\* takes the new snapshot, push_to_zotero sends the fields of a Note that
\* scan returned.  With okNet false every call to the remote of this
\* iteration fails: get_new_items returns nothing and keeps last_version,
\* push_to_zotero returns False.
CycleNet(okNet) ==
    LET listed == okNet /\ tRemote.version > tLast
        merged == IF listed THEN merge_fields(tNote, tRemote.data) ELSE tNote
        marked == merged # tNote
        differs == merged # tSnap
        changed == differs /\ ~marked
        sent == IF changed THEN push_fields(merged, tRemote.data) ELSE tRemote.data
        after == IF okNet /\ sent # tRemote.data
                 THEN [version |-> tRemote.version + 1, data |-> sent]
                 ELSE tRemote
    IN /\ tNote' = merged
       /\ tLast' = IF okNet THEN tRemote.version ELSE tLast
       /\ tSnap' = snapshot_after(tSnap, merged, changed)
       /\ tRemote' = after
       /\ tOwed' = IF changed /\ sent # tRemote.data /\ ~okNet THEN "failed"
                   ELSE IF tOwed = "failed" /\ okNet
                        THEN IF after # tRemote \/ ~PushOwed(merged, after.data) THEN "none" ELSE "dropped"
                        ELSE tOwed
       /\ UNCHANGED <<tEdits, tExt, fvars, evars, mvars, vvars, svars, wvars, qvars, yvars>>

\* an iteration whose calls to the remote all work
Cycle == CycleNet(TRUE)

NextTwoWay ==
    \/ \E f \in EditedFields, val \in FieldValues : HumanEdit(f, val)
    \/ \E f \in EditedFields, val \in FieldValues : ClientEdit(f, val)
    \/ Cycle

\* the loop runs for ever: a cycle that has something to do is taken
SpecTwoWay == InitTwoWay /\ [][NextTwoWay]_vars /\ WF_vars(Cycle)

\* every field synced in both directions has the same value in the Note
\* and in the item
InSync == \A f \in TwoWayFields : tNote[f] = tRemote.data[RemoteName(f)]

\* C16: once the edits of humans and other clients have stopped, after
\* finitely many cycles every two-way field has the same value in the Note
\* and in its item, and keeps it.  Behaviours that spend all MaxEdits
\* edits are left out, so that a violation is one where the edits stopped
\* of themselves.
C16_EventuallyConsistent == <>[](InSync \/ tEdits = MaxEdits)


\* the fields a human edits in SpecRetry
RetryFields == {"doi", "url"}

NextRetry ==
    \/ \E f \in RetryFields, val \in FieldValues : HumanEdit(f, val)
    \/ \E okNet \in BOOLEAN : CycleNet(okNet)

\* the cycles of watch_zotero with a network that fails at times
SpecRetry == InitTwoWay /\ [][NextRetry]_vars

\* C28: when the push of a Note edit failed on the network, a later cycle
\* whose calls to the remote work, with no further edit of the Note, pushes
\* the edit.
C28_FailedPushRetried == tOwed # "dropped"

(***************************************************************************)
(* SpecEnrich: crossref_enrich.py on one remote item                        *)
(***************************************************************************)
\* the fields main() looks at when it selects its targets
EnrichFields == {"DOI", "volume", "issue", "pages", "ISSN", "publisher", "url", "language"}

\* what _extract_fields makes of the CrossRef answers: field, value pairs
CrossRefResults ==
    {{}, {<<"DOI", <<"c1">>>>}, {<<"url", <<"c1">>>>}, {<<"DOI", <<"c1">>>>, <<"url", <<"c1">>>>},
     {<<"DOI", <<>>>>, <<"volume", <<"c1">>>>}}

\* every value CrossRef gave, whatever the item holds
fillable_all(data, new_fields) == {u \in new_fields : u[2] # <<>>}

\* fillable in main(), and updates in _update_zotero_item: the values
\* CrossRef gave for fields that are empty in the item as listed
fillable(data, new_fields) == {u \in new_fields : data[u[1]] = <<>> /\ u[2] # <<>>}

InitEnrich ==
    /\ qNote = <<>>
    /\ \E D \in {{}, {"DOI"}, {"url"}, {"DOI", "url"}} : qRemote = ItemData(D, 2, 1, <<"T">>, 1)
    /\ qpc = "idle"
    /\ qFetched = NoData
    /\ qUpdates = NoUpdates
    /\ qRet = "none"
    /\ qLog = NoPush
    /\ IdleMerge
    /\ IdleVault
    /\ IdleSync
    /\ IdleWatch
    /\ IdleExtra

\* main(): all_items = zot.everything(zot.items(...)); the item is a target
\* when one of the fields is empty
EnrichList ==
    /\ qpc = "idle"
    /\ \E f \in EnrichFields : qRemote[f] = <<>>
    /\ qFetched' = qRemote
    /\ qpc' = "listed"
    /\ UNCHANGED <<qNote, qRemote, qUpdates, qRet, qLog, mvars, vvars, svars, wvars, xvars>>

\* the body of the loop of main() for the item, with new_fields what
\* CrossRef gave: nothing to fill, or _update_zotero_item, whose update the
\* remote takes only when the version sent is the item's version
EnrichItem(new_fields, okNet) ==
    /\ qpc = "listed"
    /\ LET updates == [NoUpdates EXCEPT !.fields = fillable(qFetched, new_fields)]
           accepted == okNet /\ SentVersion(qFetched) = qRemote.version
           after == IF accepted
                    THEN [UpdatedData(qFetched, updates) EXCEPT !.version = qRemote.version + 1]
                    ELSE qRemote
       IN IF updates.fields = {}
          THEN /\ qRet' = "False"
               /\ qUpdates' = updates
               /\ UNCHANGED <<qRemote, qLog>>
          ELSE /\ qRemote' = after
               /\ qUpdates' = updates
               /\ qRet' = IF accepted THEN "True" ELSE "False"
               /\ qLog' = [attempts |-> qLog.attempts + 1,
                           stale    |-> qFetched.version # qRemote.version,
                           before   |-> qRemote,
                           after    |-> after]
    /\ qpc' = "done"
    /\ UNCHANGED <<qNote, qFetched, mvars, vvars, svars, wvars, xvars>>

NextEnrich ==
    \/ EnrichList
    \/ \E d \in {"DOI", "url"}, val \in {<<>>, <<"v1">>, <<"h1">>} : RemoteEditItem(d, val)
    \/ \E new_fields \in CrossRefResults, okNet \in BOOLEAN : EnrichItem(new_fields, okNet)

SpecEnrich == InitEnrich /\ [][NextEnrich]_vars

\* C34: an update_item call of the enrichment leaves every field that held
\* a value on the remote just before it as it was, and a call that comes
\* after another client changed the item since the listing changes nothing.
C34_FillsOnlyEmpty ==
    qLog.attempts > 0 =>
        /\ \A d \in EnrichFields : qLog.before[d] # <<>> => qLog.after[d] = qLog.before[d]
        /\ qLog.stale => qLog.after = qLog.before

\* an update for DOI, empty when the items were listed, that came after
\* another client had given DOI a value
C34_Witness ==
    /\ qpc = "done" /\ qLog.attempts = 1 /\ qLog.stale
    /\ qFetched.DOI = <<>> /\ qLog.before.DOI # <<>>
    /\ \E u \in qUpdates.fields : u[1] = "DOI"
    /\ qRet = "False"

(***************************************************************************)
(* SpecGen: generate_markdown on directories that hold Notes                *)
(***************************************************************************)
\* the summaries generate_markdown is called with: with and without a year,
\* titles of which one is a prefix of another
GenSummaries ==
    {[EmptySummary EXCEPT !.title = t, !.year = y] :
        t \in {<<"T">>, <<"T", " ", "x">>, <<"B">>, <<>>}, y \in {<<"2", "0", "2", "3">>, <<>>}}

\* the Notes a directory may hold before the call: as generated, of an older
\* template, or with a line a human added
GenTexts ==
    {MARKDOWN_TEMPLATE(EmptySummary), LegacyNote,
     MARKDOWN_TEMPLATE(EmptySummary) \o << <<"my", " ", "remark">> >>}

GenNames ==
    {<<"@", "2", "0", "2", "3", "_", "T", ".md">>, <<"@", "2", "0", "2", "3", "_", "T", " ", "x", ".md">>,
     <<"@", "_", "B", ".md">>, <<"@", "_", ".md">>}

GenDirs ==
    {NoFiles} \cup {(n :> t) : n \in GenNames, t \in GenTexts}
             \cup {(n1 :> t) @@ (n2 :> LegacyNote) : n1 \in GenNames, n2 \in GenNames, t \in GenTexts}

InitGen ==
    /\ fArg \in {[fn |-> "generate_markdown", files |-> d, summary |-> sm, key |-> k] :
                    d \in GenDirs, sm \in GenSummaries, k \in {"", "K1"}}
    /\ fOut = NoOut
    /\ IdleExtract /\ IdleTwoWay /\ IdleMore
    /\ IdleMerge /\ IdleVault /\ IdleSync /\ IdleWatch /\ IdlePush

\* process_item (or the reprocess script) calls generate_markdown
GenerateMarkdown ==
    /\ fArg.fn = "generate_markdown"
    /\ ~fOut.done
    /\ fOut' = [done |-> TRUE, raised |-> FALSE,
                value |-> [type |-> generate_markdown_returns(fArg.files, fArg.summary).type,
                           files |-> generate_markdown(fArg.files, fArg.summary, <<"p", ".pdf">>, fArg.key)]]
    /\ UNCHANGED <<fArg, evars, tvars, mvars, vvars, svars, wvars, qvars, yvars>>

NextGen == GenerateMarkdown

SpecGen == InitGen /\ [][NextGen]_vars

\* C32: after generate_markdown every file the directory held is still there
\* with the text it had; when the target name exists, or a Note of the same
\* year whose name contains the title prefix, the call returns None and the
\* directory is as it was.
C32_NeverModifiesExisting ==
    (fArg.fn = "generate_markdown" /\ fOut.done) =>
        /\ \A n \in DOMAIN fArg.files :
              n \in DOMAIN fOut.value.files /\ fOut.value.files[n] = fArg.files[n]
        /\ (_build_filename(fArg.summary) \in DOMAIN fArg.files \/ SimilarExists(fArg.files, fArg.summary))
              => (fOut.value.type = "None" /\ fOut.value.files = fArg.files)

\* a call whose target name is taken by a Note a human added a line to
C32_Witness ==
    /\ fArg.fn = "generate_markdown" /\ fOut.done
    /\ _build_filename(fArg.summary) \in DOMAIN fArg.files
    /\ fArg.files[_build_filename(fArg.summary)] = MARKDOWN_TEMPLATE(EmptySummary) \o << <<"my", " ", "remark">> >>
    /\ fOut.value.type = "None"

(***************************************************************************)
(* SpecReprocess: one iteration of the loop of reprocess.py                 *)
(***************************************************************************)
\* a Note whose analysis sections are the fallback's placeholders
PlaceholderNote == MARKDOWN_TEMPLATE([EmptySummary EXCEPT !.key_claims = <<"> ", "[claims]">>])

\* find_placeholder_files(): the Notes whose text holds the placeholder line
find_placeholder_files(files) ==
    {n \in DOMAIN files :
        /\ n[Len(n)] = ".md"
        /\ \E k \in 1..Len(files[n]) : files[n][k] = <<"> ", "[claims]">>}

\* how the steps of one iteration end
ReprocessOutcomes == {"ok", "unlink-error", "summarize-error", "generate-error"}

\* the body of the loop of main() for the placeholder md: back up, unlink,
\* summarize, generate; the backup is written back in the except branch
reprocess_one(files, md, summary, outcome) ==
    LET backup_content == files[md]
        unlinked == [n \in DOMAIN files \ {md} |-> files[n]]
    IN IF outcome = "unlink-error" THEN [files |-> files, counted |-> "errors"]
       ELSE IF outcome \in {"summarize-error", "generate-error"}
            THEN [files |-> [n \in DOMAIN files |-> IF n = md THEN backup_content ELSE files[n]],
                  counted |-> "errors"]
            ELSE [files |-> generate_markdown(unlinked, summary, <<"p", ".pdf">>, ""),
                  counted |-> IF generate_markdown_returns(unlinked, summary).type = "path"
                              THEN "success" ELSE "skipped"]

PlaceholderNames == {<<"@", "_", "p", ".md">>, <<"@", "_", "B", ".md">>}

InitReprocess ==
    /\ fArg \in {[fn |-> "reprocess", files |-> d @@ (md :> PlaceholderNote), md |-> md,
                   summary |-> sm, outcome |-> o] :
                    d \in {x \in GenDirs : DOMAIN x \cap PlaceholderNames = {}},
                    md \in PlaceholderNames, sm \in GenSummaries, o \in ReprocessOutcomes}
    /\ fOut = NoOut
    /\ IdleExtract /\ IdleTwoWay /\ IdleMore
    /\ IdleMerge /\ IdleVault /\ IdleSync /\ IdleWatch /\ IdlePush

\* main() handles the target fArg.md
ReprocessOne ==
    /\ fArg.fn = "reprocess"
    /\ ~fOut.done
    /\ fArg.md \in find_placeholder_files(fArg.files)
    /\ fOut' = [done |-> TRUE, raised |-> FALSE,
                value |-> reprocess_one(fArg.files, fArg.md, fArg.summary, fArg.outcome)]
    /\ UNCHANGED <<fArg, evars, tvars, mvars, vvars, svars, wvars, qvars, yvars>>

NextReprocess == ReprocessOne

SpecReprocess == InitReprocess /\ [][NextReprocess]_vars

\* C33: after the iteration for a placeholder either a regenerated Note was
\* written or the placeholder file is there with the content it had.
C33_PlaceholderNeverLost ==
    (fArg.fn = "reprocess" /\ fOut.done) =>
        \/ fOut.value.counted = "success"
        \/ /\ fArg.md \in DOMAIN fOut.value.files
           /\ fOut.value.files[fArg.md] = fArg.files[fArg.md]

\* the fields humans and other clients edit in SpecEdits
EditsFields == {"doi", "url"}

NextEdits ==
    \/ \E f \in EditsFields, val \in FieldValues : HumanEdit(f, val)
    \/ \E f \in EditsFields, val \in FieldValues : ClientEdit(f, val)
    \/ Cycle

\* two fields, edited by a human in the Note and by another client in the item
SpecEdits == InitTwoWay /\ [][NextEdits]_vars

\* C39: a cycle of the loop leaves every field of the item that another
\* client changed, and whose line in the Note is as the last scan read it
\* (the human has not edited it), as that client left it.
C39_ExternalEditKept ==
    [][tEdits' = tEdits =>
          \A f \in tExt : tNote[f] = tSnap[f] =>
              tRemote'.data[RemoteName(f)] = tRemote.data[RemoteName(f)]]_vars

(***************************************************************************)
(* SpecGemini: _call_gemini_model and the status it keeps per model        *)
(***************************************************************************)
ApiKeys == {"placeholder", "wrong", "valid"}

\* how requests.post and the reading of its response can go
PostOutcomes ==
    {"ok", "429", "ConnectionError", "ConnectTimeout", "ReadTimeout", "KeyError",
     "HTTP 400", "HTTP 404", "HTTP 500"}

\* what the API can answer to a request with this key
PostOutcomesFor(key) ==
    IF key = "valid" THEN PostOutcomes \ {"HTTP 400"}
    ELSE {"HTTP 400", "ConnectionError", "ConnectTimeout", "ReadTimeout"}

\* str(e) of the exception, as the run of words the code searches
ErrorText(outcome) ==
    CASE outcome = "HTTP 400" -> <<"400", " Client Error: ", "Bad Request", " for url: ">>
      [] outcome = "HTTP 404" -> <<"404", " Client Error: ", "Not Found", " for url: ">>
      [] outcome = "HTTP 500" -> <<"500", " Server Error: ", "Internal Server Error", " for url: ">>
      [] outcome = "ReadTimeout" -> <<"Read timed out.">>
      [] OTHER -> <<>>

\* requests.ConnectTimeout is a requests.ConnectionError
IsConnectionError(outcome) == outcome \in {"ConnectionError", "ConnectTimeout"}

\* any(k in err for k in ("API_KEY_INVALID", "404"))
IsPermanent(err) == \E i \in DOMAIN err : err[i] \in {"API_KEY_INVALID", "404"}

\* the model's status after a request with this outcome
status_after(status, outcome) ==
    IF outcome = "ok" THEN "True"
    ELSE IF outcome = "429" THEN status
    ELSE IF IsConnectionError(outcome) THEN "False"
    ELSE IF outcome = "KeyError" THEN status
    ELSE IF IsPermanent(ErrorText(outcome)) THEN "False"
    ELSE status

\* a call that asks the API whatever the status is
short_circuit_never(status) == FALSE

\* if _gemini_status.get(model) is False: return None
short_circuit(status) == status = "False"

InitGemini ==
    /\ _gemini_status = [m \in Models |-> "None"]
    /\ aKey \in ApiKeys
    /\ aCalls = [m \in Models |-> 0]
    /\ aRequests = [m \in Models |-> 0]
    /\ aLast = NoCallYet
    /\ IdleStartup /\ IdleFn /\ IdleExtract /\ IdleTwoWay
    /\ IdleMerge /\ IdleVault /\ IdleSync /\ IdleWatch /\ IdlePush

\* _call_gemini_model(prompt, model); outcome is how the request goes,
\* should one be made
CallGemini(model, outcome) ==
    /\ aCalls[model] < MaxCalls
    /\ aCalls' = [aCalls EXCEPT ![model] = @ + 1]
    /\ LET before == _gemini_status[model] IN
       IF short_circuit(before)
       THEN /\ aLast' = [model |-> model, before |-> before, after |-> before,
                         outcome |-> "none", requested |-> FALSE]
            /\ UNCHANGED <<_gemini_status, aRequests>>
       ELSE IF aKey = "placeholder"
       THEN /\ _gemini_status' = [_gemini_status EXCEPT ![model] = "False"]
            /\ aLast' = [model |-> model, before |-> before, after |-> "False",
                         outcome |-> "no-key", requested |-> FALSE]
            /\ UNCHANGED aRequests
       ELSE /\ outcome \in PostOutcomesFor(aKey)
            /\ aRequests' = [aRequests EXCEPT ![model] = @ + 1]
            /\ _gemini_status' = [_gemini_status EXCEPT ![model] = status_after(before, outcome)]
            /\ aLast' = [model |-> model, before |-> before, after |-> status_after(before, outcome),
                         outcome |-> outcome, requested |-> TRUE]
    /\ UNCHANGED <<aKey, cvars, fvars, evars, tvars, mvars, vvars, svars, wvars, qvars>>

NextGemini == \E model \in Models, outcome \in PostOutcomes : CallGemini(model, outcome)

SpecGemini == InitGemini /\ [][NextGemini]_vars

\* C29: once a model's status is False, no call makes a request for that
\* model and its status stays False.
C29_UnavailableIsFinal ==
    [][\A m \in Models :
          _gemini_status[m] = "False" =>
              (_gemini_status'[m] = "False" /\ aRequests'[m] = aRequests[m])]_vars

\* a model that answered once, was marked unavailable by a later request,
\* and was called again without a request
C29_Witness ==
    \E m \in Models :
        /\ _gemini_status[m] = "False"
        /\ aLast = [model |-> m, before |-> "False", after |-> "False", outcome |-> "none", requested |-> FALSE]
        /\ aRequests[m] = 2 /\ aCalls[m] = 3

\* C30: a call turns a model's status into False only for a missing or
\* invalid API key or a model that is not found; a rate limit, a timeout or
\* a connection failure leaves the status as it was, and the next call for
\* the model makes a request.
C30_OnlyPermanentErrors ==
    /\ (aLast.before # "False" /\ aLast.after = "False") =>
           aLast.outcome \in {"no-key", "HTTP 400", "HTTP 404"}
    /\ aLast.outcome \in {"429", "ReadTimeout", "ConnectTimeout", "ConnectionError"} =>
           aLast.after = aLast.before

(***************************************************************************)
(* SpecStartup: config.py's import, watch_zotero's start and its loop       *)
(***************************************************************************)
\* the settings config.py reads with _require_env
RequiredSettings ==
    {"PDF_DIR", "MARKDOWN_DIR", "ZOTERO_LIBRARY_ID", "ZOTERO_API_KEY", "ZOTERO_STORAGE", "GEMINI_API_KEY"}

\* the settings that are credentials of the remote library
ZoteroCredentials == {"ZOTERO_LIBRARY_ID", "ZOTERO_API_KEY"}

\* values of a setting: unset (os.getenv gives ""), blank, a value the
\* remote rejects, a value that works
EnvValues == {<<>>, <<" ">>, <<"wrong">>, <<"good">>}

\* _require_env(key, desc): the stripped value, sys.exit(1) when it is empty
_require_env(val) ==
    IF Strip(val, Whitespace) = <<>> THEN [exit |-> TRUE, val |-> <<>>]
    ELSE [exit |-> FALSE, val |-> Strip(val, Whitespace)]

\* watch_zotero before its loop: the two credentials are tested for being
\* empty, ZoteroSync and ObsidianWatcher are built, no call goes to the remote
credentials_accepted(env) == \A k \in ZoteroCredentials : env[k] # <<>>

\* zot.items(since=...) with these credentials
ItemsCallWorks(env) == \A k \in ZoteroCredentials : env[k] = <<"good">>

SettingsMissing == \E k \in RequiredSettings : Strip(cEnv[k], Whitespace) = <<>>

CredentialsInvalid == \E k \in ZoteroCredentials : Strip(cEnv[k], Whitespace) = <<"wrong">>

InitStartup ==
    /\ cEnv \in {env \in [RequiredSettings -> EnvValues] :
                    \A k \in RequiredSettings \ ZoteroCredentials : env[k] \in {<<>>, <<"good">>}}
    /\ cpc = "import"
    /\ cPolls = 0
    /\ cFailed = 0
    /\ IdleGemini /\ IdleFn /\ IdleExtract /\ IdleTwoWay
    /\ IdleMerge /\ IdleVault /\ IdleSync /\ IdleWatch /\ IdlePush

\* import config: every required setting goes through _require_env
ImportConfig ==
    /\ cpc = "import"
    /\ IF \E k \in RequiredSettings : _require_env(cEnv[k]).exit
       THEN cpc' = "exited" /\ UNCHANGED cEnv
       ELSE cpc' = "main" /\ cEnv' = [k \in RequiredSettings |-> _require_env(cEnv[k]).val]
    /\ UNCHANGED <<cPolls, cFailed, avars, fvars, evars, tvars, mvars, vvars, svars, wvars, qvars>>

\* watch_zotero up to its loop
StartWatch ==
    /\ cpc = "main"
    /\ cpc' = IF credentials_accepted(cEnv) THEN "loop" ELSE "exited"
    /\ UNCHANGED <<cEnv, cPolls, cFailed, avars, fvars, evars, tvars, mvars, vvars, svars, wvars, qvars>>

\* one iteration of the loop: get_new_items catches the error of zot.items,
\* prints it and returns []; the loop sleeps and goes on
PollOnce ==
    /\ cpc = "loop"
    /\ cPolls < MaxPolls
    /\ cPolls' = cPolls + 1
    /\ cFailed' = IF ItemsCallWorks(cEnv) THEN cFailed ELSE cFailed + 1
    /\ UNCHANGED <<cEnv, cpc, avars, fvars, evars, tvars, mvars, vvars, svars, wvars, qvars>>

NextStartup == ImportConfig \/ StartWatch \/ PollOnce

SpecStartup == InitStartup /\ [][NextStartup]_vars

\* C21: with a required setting missing or a credential the remote
\* rejects, the process never reaches its polling loop and never makes a
\* zot.items call that fails.
C21_FatalAtStartup == (SettingsMissing \/ CredentialsInvalid) => (cpc # "loop" /\ cFailed = 0)
====
